---- MODULE Spec2Model ----
(***************************************************************************)
(* EstimationTool: the hour-mapping calculator, the estimation forms, the  *)
(* day-rounding display and the estimation record store.                   *)
(*                                                                         *)
(* Strings whose characters matter (names that travel in a URL, rendered   *)
(* day counts) are sequences of one-character strings.  A JavaScript value *)
(* that can be something else than a number is a record with a tag t.      *)
(***************************************************************************)
EXTENDS Integers, Sequences, FiniteSets, TLC

\* ---------------------------------------------------------------- bounds
MaxTotalHours == 40
MaxItems == 2
MaxItemIds == 2
MaxCalls == 2
MaxLookups == 1
MaxRequests == 2
MaxSnapshotRequests == 1
MaxEstimations == 2
MaxDetails == 2
MaxMappingWrites == 2
MaxMasterId == 3
MaxAdminWrites == 2
MaxTime == 2
MaxOtpIssues == 2
MaxVerifies == 2
MaxClients == 2
MaxLogins == 2
MaxListLen == 2

\* ------------------------------------------------------ JavaScript values
Num(n) == [t |-> "number", v |-> n]
\* a pending Promise object (serialised by JSON.stringify as {})
PendingPromise == [t |-> "promise", v |-> 0]
\* the result of number + object: a string such as "0[object Promise]"
ConcatString == [t |-> "string", v |-> 0]
\* undefined / a missing JSON property
Undefined == [t |-> "undefined", v |-> 0]
IsNumber(x) == x.t = "number"

\* JavaScript a + b as used by the reduce() calls of the forms
JsAdd(a, b) ==
  IF IsNumber(a) /\ IsNumber(b) THEN Num(a.v + b.v) ELSE ConcatString

\* ------------------------------------------------------------ day values
\* A day count is whole + (half ? 0.5 : 0), or NaN.
Day(w, h) == [nan |-> FALSE, whole |-> w, half |-> h]
DayNaN == [nan |-> TRUE, whole |-> 0, half |-> FALSE]
HalfDay == Day(0, TRUE)

\* Math.ceil(n / 8) for a non-negative integer n
MathCeilDiv8(n) ==
  IF n % 8 = 0 THEN n \div 8 ELSE (n \div 8) + 1

calculateEstimatedDays_noHalf(totalHours) ==
  Day(MathCeilDiv8(totalHours), FALSE)

calculateEstimatedDays(totalHours) ==
  IF totalHours <= 4
    THEN HalfDay
    ELSE Day(MathCeilDiv8(totalHours), FALSE)

\* Math.ceil(totalHours / 8) on a JavaScript value: a string that is not a
\* numeral divides to NaN
CeilDiv8Js(x) ==
  IF IsNumber(x) THEN Day(MathCeilDiv8(x.v), FALSE) ELSE DayNaN

Digits == <<"0", "1", "2", "3", "4", "5", "6", "7", "8", "9">>

RECURSIVE Decimal(_)
Decimal(n) ==
  IF n < 10 THEN <<Digits[n + 1]>>
  ELSE Decimal(n \div 10) \o <<Digits[(n % 10) + 1]>>

\* Number.prototype.toString for the day values that occur
NumberToString(d) ==
  IF d.nan THEN <<"N", "a", "N">>
  ELSE IF d.half THEN Decimal(d.whole) \o <<".", "5">>
  ELSE Decimal(d.whole)

formatDays_alwaysUnit(days) ==
  NumberToString(days) \o <<" ", "D", "a", "y">>

formatDays(days) ==
  IF days = HalfDay
    THEN <<"0", ".", "5", " ", "D", "a", "y">>
    ELSE NumberToString(days)

\* ------------------------------------------------ names and URL encoding
EmptyName == <<>>
ComplexityNames == { <<"M", "e", "d">>, <<"C", "/", "X">> }
BehaviorNames == { <<"P", " ", "D">>, <<"5", "%">> }

\* the characters encodeURIComponent escapes, with their escapes
Escaped == {" ", "/", "%"}
EscapeOf(c) ==
  CASE c = " " -> <<"%", "2", "0">>
    [] c = "/" -> <<"%", "2", "F">>
    [] c = "%" -> <<"%", "2", "5">>

encodeURIComponent_none(s) == s

RECURSIVE encodeURIComponent(_)
encodeURIComponent(s) ==
  IF s = <<>> THEN <<>>
  ELSE (IF Head(s) \in Escaped THEN EscapeOf(Head(s)) ELSE <<Head(s)>>)
         \o encodeURIComponent(Tail(s))

\* decodeURIComponent: <<TRUE, text>>, or <<FALSE, <<>>>> for a URIError
URIError == <<FALSE, <<>>>>
UnescapeOf(a, b) ==
  CASE a = "2" /\ b = "0" -> <<" ">>
    [] a = "2" /\ b = "F" -> <<"/">>
    [] a = "2" /\ b = "5" -> <<"%">>
    [] OTHER -> <<>>

RECURSIVE decodeURIComponent(_)
decodeURIComponent(s) ==
  IF s = <<>> THEN <<TRUE, <<>>>>
  ELSE IF Head(s) # "%" THEN
    LET rest == decodeURIComponent(Tail(s))
    IN IF rest[1] THEN <<TRUE, <<Head(s)>> \o rest[2]>> ELSE URIError
  ELSE IF Len(s) < 3 \/ UnescapeOf(s[2], s[3]) = <<>> THEN URIError
  ELSE
    LET rest == decodeURIComponent(SubSeq(s, 4, Len(s)))
    IN IF rest[1] THEN <<TRUE, UnescapeOf(s[2], s[3]) \o rest[2]>>
       ELSE URIError

\* the path below /api/hour-mapping/ cut at every "/"
RECURSIVE SplitPath(_)
SplitPath(s) ==
  IF \A i \in 1..Len(s) : s[i] # "/" THEN <<s>>
  ELSE LET i == CHOOSE j \in 1..Len(s) :
                  s[j] = "/" /\ \A m \in 1..(j - 1) : s[m] # "/"
       IN <<SubSeq(s, 1, i - 1)>> \o SplitPath(SubSeq(s, i + 1, Len(s)))

\* Express route /api/hour-mapping/:complexity/:behavior on a request path:
\* the status it fails with (404 no route, 400 undecodable parameter), or 0
\* with the decoded req.params
RouteParams(path) ==
  LET segs == SplitPath(path)
  IN IF Len(segs) # 2 \/ segs[1] = <<>> \/ segs[2] = <<>>
       THEN [status |-> 404, complexity |-> <<>>, behavior |-> <<>>]
     ELSE IF ~decodeURIComponent(segs[1])[1] \/ ~decodeURIComponent(segs[2])[1]
       THEN [status |-> 400, complexity |-> <<>>, behavior |-> <<>>]
     ELSE [status |-> 0,
           complexity |-> decodeURIComponent(segs[1])[2],
           behavior |-> decodeURIComponent(segs[2])[2]]

HourMappingPath(complexityName, screenBehavior) ==
  encodeURIComponent(complexityName) \o <<"/">>
    \o encodeURIComponent(screenBehavior)

\* ------------------------------------------------------------- variables
VARIABLES
  dayForm,      \* the form whose summary card was rendered last
  dayIn,        \* the totalHours it was rendered for
  dayOut,       \* the day count it computed
  dayText,      \* the text it shows
  hourMapping,  \* Hour Mapping table: rows {complexityName, screenBehaviorName, hours}
  mappingWrites,\* number of write requests the table has served
  httpStatus,   \* status of the last response of a write route
  lookup,       \* the getHoursFromMapping calls: call slot -> call state
  projects,     \* ids of the rows of table projects
  screens,      \* rows of table screens
  complexityMaster,   \* rows of table complexity_master
  screenTypeMaster,   \* rows of table screen_type_master
  estimations,        \* committed rows of table estimations
  estimationDetails,  \* committed rows of table estimation_details
  nextEstimationId,   \* serial of estimations.id
  nextDetailId,       \* serial of estimation_details.id
  tx,           \* createEstimation calls: request slot -> open transaction
  submitted,    \* history: estimation id -> the details its call was given
  failedIds,    \* history: ids of headers whose transaction was rolled back
  page,         \* the mounted estimation form
  selectedProjectId,  \* its selected project (0: none)
  estimationItems,    \* SimplifiedEstimations: the line items
  nextItemId,         \* SimplifiedEstimations: source of fresh item ids
  updateCalls,        \* SimplifiedEstimations: updateEstimationItem calls awaiting their lookup
  estimationScreens,  \* Estimations: the line items
  formScreens,        \* EstimationStepper: formData.screens
  posted,       \* the body of the POST /api/estimations in flight
  masterSerial, \* serials of the ids of the master tables: table -> next id
  adminWrites,  \* number of write requests the master-data routes have served
  now,          \* Date.now(), in units of the OTP lifetime
  otpStore,     \* the otpStore map: rows {email, otp, expires, issue}
  otpIssued,    \* number of OTPs send-otp has issued
  verify,       \* verify-otp requests awaiting the user lookup
  sessions,     \* session store: client -> session.userId (<<>>: none)
  logins,       \* history: the successful logins, in order
  engineIn,     \* SmartEstimationEngine: the arguments of the last call
  engineOut     \* SmartEstimationEngine: what the call returned

dayVars == <<dayForm, dayIn, dayOut, dayText>>
authVars == <<now, otpStore, otpIssued, verify, sessions, logins>>
engineVars == <<engineIn, engineOut>>
mappingVars == <<hourMapping, mappingWrites, httpStatus>>

masterVars == <<projects, screens, complexityMaster, screenTypeMaster,
                masterSerial, adminWrites>>
storeVars == <<estimations, estimationDetails, nextEstimationId, nextDetailId,
               tx, submitted, failedIds>>

vars == <<dayForm, dayIn, dayOut, dayText,
          hourMapping, mappingWrites, httpStatus, lookup,
          projects, screens, complexityMaster, screenTypeMaster,
          estimations, estimationDetails, nextEstimationId, nextDetailId,
          tx, submitted, failedIds,
          page, selectedProjectId, estimationItems, nextItemId, updateCalls,
          estimationScreens, formScreens, posted, masterSerial,
          adminWrites, now, otpStore, otpIssued, verify, sessions, logins,
          engineIn, engineOut>>

formVars == <<page, selectedProjectId, estimationItems, nextItemId,
              updateCalls, estimationScreens, formScreens, posted>>

\* ------------------------------------------------- day display (render)
DayInit ==
  /\ dayForm = "none"
  /\ dayIn = 0
  /\ dayOut = DayNaN
  /\ dayText = <<>>

\* SimplifiedEstimations summary card
RenderSimplified(h) ==
  /\ dayForm' = "SimplifiedEstimations"
  /\ dayIn' = h
  /\ dayOut' = calculateEstimatedDays(h)
  /\ dayText' = formatDays(calculateEstimatedDays(h))
  /\ UNCHANGED <<authVars, engineVars, mappingVars, lookup, masterVars,
                 storeVars, formVars>>

\* Estimations summary card: {estimatedDays}
RenderEstimations(h) ==
  /\ dayForm' = "Estimations"
  /\ dayIn' = h
  /\ dayOut' = CeilDiv8Js(Num(h))
  /\ dayText' = NumberToString(CeilDiv8Js(Num(h)))
  /\ UNCHANGED <<authVars, engineVars, mappingVars, lookup, masterVars,
                 storeVars, formVars>>

\* EstimationStepper summary: {calculateEstimatedDays()}
RenderStepper(h) ==
  /\ dayForm' = "EstimationStepper"
  /\ dayIn' = h
  /\ dayOut' = Day(MathCeilDiv8(h), FALSE)
  /\ dayText' = NumberToString(Day(MathCeilDiv8(h), FALSE))
  /\ UNCHANGED <<authVars, engineVars, mappingVars, lookup, masterVars,
                 storeVars, formVars>>

\* ------------------------------------------------- Hour Mapping (storage)
Pair(c, b) == <<c, b>>

\* the rows of the table for a (complexityName, screenBehaviorName) pair
MappingRows(c, b) ==
  { r \in hourMapping :
      Pair(r.complexityName, r.screenBehaviorName) = Pair(c, b) }

\* storage.getHoursByComplexityAndBehavior: the hours of the row, or absent
getHoursByComplexityAndBehavior(c, b) ==
  IF MappingRows(c, b) # {}
    THEN Num((CHOOSE r \in MappingRows(c, b) : TRUE).hours)
    ELSE Undefined

\* the table after storage.createHourMapping / storage.updateHourMapping
upsertMapping_insert(c, b, hours) ==
  hourMapping \cup
    { [complexityName |-> c, screenBehaviorName |-> b, hours |-> hours] }

upsertMapping(c, b, hours) ==
  (hourMapping \ MappingRows(c, b)) \cup
    { [complexityName |-> c, screenBehaviorName |-> b, hours |-> hours] }

MappingInit ==
  /\ hourMapping =
       { [complexityName |-> <<"M", "e", "d">>,
          screenBehaviorName |-> <<"P", " ", "D">>, hours |-> 12],
         [complexityName |-> <<"C", "/", "X">>,
          screenBehaviorName |-> <<"5", "%">>, hours |-> 4] }
  /\ mappingWrites = 0
  /\ httpStatus = 0

\* hours values a client sends to the write routes
WriteHours == { Num(5), Num(-1), Undefined }

\* POST /api/hour-mapping
PostHourMapping_unvalidated(complexityName, screenBehavior, hours) ==
  /\ mappingWrites < MaxMappingWrites
  /\ mappingWrites' = mappingWrites + 1
  /\ httpStatus' = 201
  /\ hourMapping' = upsertMapping(complexityName, screenBehavior, hours.v)
  /\ UNCHANGED <<authVars, dayVars, engineVars, lookup, masterVars, storeVars, formVars>>

PostHourMapping(complexityName, screenBehavior, hours) ==
  /\ mappingWrites < MaxMappingWrites
  /\ mappingWrites' = mappingWrites + 1
  /\ IF \/ complexityName = EmptyName
        \/ screenBehavior = EmptyName
        \/ ~IsNumber(hours)
        \/ hours.v < 0
       THEN /\ httpStatus' = 400
            /\ UNCHANGED hourMapping
       ELSE /\ httpStatus' = 201
            /\ hourMapping' = upsertMapping(complexityName, screenBehavior, hours.v)
  /\ UNCHANGED <<authVars, dayVars, engineVars, lookup, masterVars, storeVars, formVars>>

\* PUT /api/hour-mapping/:complexity/:behavior
PutHourMapping(path, hours) ==
  /\ mappingWrites < MaxMappingWrites
  /\ mappingWrites' = mappingWrites + 1
  /\ LET req == RouteParams(path)
     IN IF req.status # 0
          THEN /\ httpStatus' = req.status
               /\ UNCHANGED hourMapping
        ELSE IF ~IsNumber(hours) \/ hours.v < 0
          THEN /\ httpStatus' = 400
               /\ UNCHANGED hourMapping
        ELSE /\ httpStatus' = 200
             /\ hourMapping' = upsertMapping(req.complexity, req.behavior, hours.v)
  /\ UNCHANGED <<authVars, dayVars, engineVars, lookup, masterVars, storeVars, formVars>>

\* ------------------------------------------------------- the calculator
Calls == 1..MaxCalls
NoResponse == [status |-> 0, hours |-> Undefined]
IdleCall ==
  [pc |-> "idle", complexity |-> EmptyName, behavior |-> EmptyName,
   path |-> <<>>, resp |-> NoResponse, result |-> Undefined,
   rowAtCall |-> Undefined, rowAtRead |-> Undefined, faulted |-> FALSE]

LookupInit == lookup = [k \in Calls |-> IdleCall]

\* getHoursFromMapping up to its first await: the guard on empty names and
\* the GET request (the call as it stands after that)
CallStarted(complexityName, screenBehavior) ==
  IF complexityName = EmptyName \/ screenBehavior = EmptyName
    THEN [IdleCall EXCEPT !.pc = "done",
                          !.complexity = complexityName,
                          !.behavior = screenBehavior,
                          !.result = Num(0)]
    ELSE [IdleCall EXCEPT !.pc = "sent",
                          !.complexity = complexityName,
                          !.behavior = screenBehavior,
                          !.path = HourMappingPath(complexityName, screenBehavior),
                          !.rowAtCall = getHoursByComplexityAndBehavior(
                                          complexityName, screenBehavior)]

getHoursFromMapping(k, complexityName, screenBehavior) ==
  /\ lookup[k].pc \in {"idle", "done"}
  /\ lookup' = [lookup EXCEPT ![k] = CallStarted(complexityName, screenBehavior)]
  /\ UNCHANGED <<authVars, dayVars, engineVars, mappingVars, masterVars, storeVars, formVars>>

\* GET /api/hour-mapping/:complexity/:behavior; storageOk = FALSE is the
\* storage call throwing (500).  rowAtRead and faulted are history: the row
\* of the pair the caller named as the handler ran, and whether the storage
\* call failed.
GetHourMappingHours(k, storageOk) ==
  /\ lookup[k].pc = "sent"
  /\ LET req == RouteParams(lookup[k].path)
         row == getHoursByComplexityAndBehavior(lookup[k].complexity,
                                                lookup[k].behavior)
     IN lookup' = [lookup EXCEPT ![k] =
          IF req.status # 0
            THEN [@ EXCEPT !.pc = "responded",
                           !.rowAtRead = row,
                           !.resp = [status |-> req.status, hours |-> Undefined]]
          ELSE IF ~storageOk
            THEN [@ EXCEPT !.pc = "responded",
                           !.rowAtRead = row,
                           !.faulted = TRUE,
                           !.resp = [status |-> 500, hours |-> Undefined]]
          ELSE [@ EXCEPT !.pc = "responded",
                         !.rowAtRead = row,
                         !.resp = [status |-> 200,
                                   hours |-> getHoursByComplexityAndBehavior(
                                               req.complexity, req.behavior)]]]
  /\ UNCHANGED <<authVars, dayVars, engineVars, mappingVars, masterVars, storeVars, formVars>>

OrZero_noDefault(x) == x

\* JavaScript x || 0
OrZero(x) ==
  IF IsNumber(x) /\ x.v # 0 THEN x ELSE Num(0)

\* what getHoursFromMapping returns for a response: apiRequest throws on a
\* response that is not ok, and the catch block returns 0
HoursOfResponse(resp) ==
  IF resp.status = 200 THEN OrZero(resp.hours) ELSE Num(0)

\* getHoursFromMapping from the response to its return
getHoursFromMappingReturn(k) ==
  /\ lookup[k].pc = "responded"
  /\ lookup' = [lookup EXCEPT ![k] =
       [@ EXCEPT !.pc = "done", !.result = HoursOfResponse(lookup[k].resp)]]
  /\ UNCHANGED <<authVars, dayVars, engineVars, mappingVars, masterVars, storeVars, formVars>>

\* the calculator called directly, MaxLookups calls at a time
CalcCalls == Calls \cap (1..MaxLookups)

CalcNext ==
  \/ \E k \in CalcCalls, c \in ComplexityNames \cup {EmptyName},
        b \in BehaviorNames \cup {EmptyName} :
       getHoursFromMapping(k, c, b)
  \/ \E k \in CalcCalls, storageOk \in BOOLEAN :
       GetHourMappingHours(k, storageOk)
  \/ \E k \in CalcCalls : getHoursFromMappingReturn(k)
  \/ \E c \in ComplexityNames \cup {EmptyName},
        b \in BehaviorNames \cup {EmptyName}, h \in WriteHours :
       PostHourMapping(c, b, h)
  \/ \E c \in ComplexityNames, b \in BehaviorNames, h \in WriteHours :
       PutHourMapping(HourMappingPath(c, b), h)

\* ------------------------------------------------------ the record store
MasterInit ==
  /\ projects = {1, 2}
  /\ screens = { [id |-> 1, projectId |-> 1], [id |-> 2, projectId |-> 2] }
  /\ complexityMaster =
       { [id |-> 1, name |-> <<"M", "e", "d">>, hours |-> 2],
         [id |-> 2, name |-> <<"C", "/", "X">>, hours |-> 3] }
  /\ screenTypeMaster =
       { [id |-> 1, name |-> <<"P", " ", "D">>, hours |-> 1],
         [id |-> 2, name |-> <<"5", "%">>, hours |-> 2] }
  /\ masterSerial = [projects |-> 3, screens |-> 3, complexityMaster |-> 3,
                     screenTypeMaster |-> 3]
  /\ adminWrites = 0

Ids(rows) == { r.id : r \in rows }

\* the screens of a project (GET /api/projects/:id/screens)
ProjectScreens(projectId) == { sc \in screens : sc.projectId = projectId }

Requests == 1..MaxRequests
NoTx == [pc |-> "idle", header |-> <<>>, details |-> <<>>]

StoreInit ==
  /\ estimations = {}
  /\ estimationDetails = {}
  /\ nextEstimationId = 1
  /\ nextDetailId = 1
  /\ tx = [c \in Requests |-> NoTx]
  /\ submitted = <<>>
  /\ failedIds = {}

\* a value a column of type integer accepts
IsInteger(x) == IsNumber(x)

\* the insert into estimations passes its constraints: the NOT NULL columns
\* (an empty string is not null), the foreign key on project_id and the
\* integer column total_hours
HeaderInsertable(estimation) ==
  /\ {"projectId", "name", "totalHours", "versionNumber"}
       \subseteq DOMAIN estimation
  /\ estimation.projectId \in projects
  /\ IsInteger(estimation.totalHours)

\* one row of the batch insert into estimation_details passes its
\* constraints: three foreign keys and the integer column calculated_hours
DetailInsertable_noForeignKeys(detail) == IsInteger(detail.calculatedHours)

DetailInsertable(detail) ==
  /\ detail.screenId \in Ids(screens)
  /\ detail.complexityId \in Ids(complexityMaster)
  /\ detail.screenTypeId \in Ids(screenTypeMaster)
  /\ IsInteger(detail.calculatedHours)

\* details.map(detail => ({...detail, estimationId})) as inserted rows
DetailRows_lastHeader(details, estimationId, firstId) ==
  { [id |-> firstId + i - 1,
     estimationId |-> nextEstimationId - 1,
     screenId |-> details[i].screenId,
     complexityId |-> details[i].complexityId,
     screenTypeId |-> details[i].screenTypeId,
     calculatedHours |-> details[i].calculatedHours.v] : i \in 1..Len(details) }

DetailRows(details, estimationId, firstId) ==
  { [id |-> firstId + i - 1,
     estimationId |-> estimationId,
     screenId |-> details[i].screenId,
     complexityId |-> details[i].complexityId,
     screenTypeId |-> details[i].screenTypeId,
     calculatedHours |-> details[i].calculatedHours.v] : i \in 1..Len(details) }

\* db.transaction: what is left of the header when the callback throws
AfterRollback_noTransaction(header) == estimations \cup {header}

AfterRollback(header) == estimations

\* POST /api/estimations up to the first insert of storage.createEstimation:
\* the user check, the header object, and the insert of the header inside
\* the transaction (not visible to others before the commit)
PostEstimations(c, body, userId) ==
  /\ tx[c].pc = "idle"
  /\ nextEstimationId <= MaxEstimations
  /\ IF userId = ""
       THEN /\ httpStatus' = 401
            /\ UNCHANGED <<nextEstimationId, tx, submitted>>
     ELSE IF ~HeaderInsertable(body.estimation)
       THEN /\ httpStatus' = 500
            /\ UNCHANGED <<nextEstimationId, tx, submitted>>
     ELSE /\ tx' = [tx EXCEPT ![c] =
                 [pc |-> "header",
                  header |-> [id |-> nextEstimationId,
                              projectId |-> body.estimation.projectId,
                              name |-> body.estimation.name,
                              totalHours |-> body.estimation.totalHours.v,
                              versionNumber |-> body.estimation.versionNumber,
                              createdBy |-> userId],
                  details |-> body.details]]
          /\ nextEstimationId' = nextEstimationId + 1
          /\ submitted' = (nextEstimationId :> body.details) @@ submitted
          /\ httpStatus' = 0
  /\ UNCHANGED <<estimations, estimationDetails, nextDetailId, failedIds>>
  /\ UNCHANGED <<authVars, dayVars, engineVars, hourMapping, mappingWrites, lookup, masterVars, formVars>>

\* storage.createEstimation from the insert of the details to the end of
\* the transaction; emptyThrows: whether the insert of an empty batch is an
\* error of the query builder
CreateEstimationDetails(c, emptyThrows) ==
  /\ tx[c].pc = "header"
  /\ IF \/ \E i \in 1..Len(tx[c].details) : ~DetailInsertable(tx[c].details[i])
        \/ (tx[c].details = <<>> /\ emptyThrows)
       THEN /\ estimations' = AfterRollback(tx[c].header)
            /\ failedIds' = failedIds \cup {tx[c].header.id}
            /\ httpStatus' = 500
            /\ UNCHANGED <<estimationDetails, nextDetailId>>
       ELSE /\ estimations' = estimations \cup {tx[c].header}
            /\ estimationDetails' = estimationDetails \cup
                 DetailRows(tx[c].details, tx[c].header.id, nextDetailId)
            /\ nextDetailId' = nextDetailId + Len(tx[c].details)
            /\ httpStatus' = 201
            /\ UNCHANGED failedIds
  /\ tx' = [tx EXCEPT ![c] = NoTx]
  /\ UNCHANGED <<nextEstimationId, submitted>>
  /\ UNCHANGED <<authVars, dayVars, engineVars, hourMapping, mappingWrites, lookup, masterVars, formVars>>

\* storage.getEstimation: the header as read back
getEstimation(id) ==
  { [id |-> e.id, name |-> e.name, totalHours |-> e.totalHours,
     versionNumber |-> e.versionNumber, projectId |-> e.projectId,
     createdBy |-> e.createdBy] : e \in { x \in estimations : x.id = id } }

NameOf(rows, id) ==
  IF id \in Ids(rows) THEN (CHOOSE r \in rows : r.id = id).name ELSE <<>>

\* the same query with the hours looked up again in the Hour Mapping table
getEstimationDetails_recomputed(estimationId) ==
  { [id |-> d.id, screenId |-> d.screenId,
     complexityId |-> d.complexityId,
     complexityName |-> NameOf(complexityMaster, d.complexityId),
     screenTypeId |-> d.screenTypeId,
     screenTypeName |-> NameOf(screenTypeMaster, d.screenTypeId),
     calculatedHours |->
       OrZero(getHoursByComplexityAndBehavior(
                NameOf(complexityMaster, d.complexityId),
                NameOf(screenTypeMaster, d.screenTypeId))).v] :
    d \in { x \in estimationDetails : x.estimationId = estimationId } }

\* storage.getEstimationDetails: the detail rows joined with the masters
getEstimationDetails(estimationId) ==
  { [id |-> d.id, screenId |-> d.screenId,
     complexityId |-> d.complexityId,
     complexityName |-> NameOf(complexityMaster, d.complexityId),
     screenTypeId |-> d.screenTypeId,
     screenTypeName |-> NameOf(screenTypeMaster, d.screenTypeId),
     calculatedHours |-> d.calculatedHours] :
    d \in { x \in estimationDetails : x.estimationId = estimationId } }

\* request bodies a client posts
DetailChoices ==
  { [screenId |-> 1, complexityId |-> 1, screenTypeId |-> 1,
     calculatedHours |-> Num(12)],
    [screenId |-> 6, complexityId |-> 2, screenTypeId |-> 2,
     calculatedHours |-> Num(4)] }

RECURSIVE SeqsUpTo(_, _)
SeqsUpTo(S, n) ==
  IF n = 0 THEN { <<>> }
  ELSE SeqsUpTo(S, n - 1) \cup
       { Append(q, x) : q \in { r \in SeqsUpTo(S, n - 1) : Len(r) = n - 1 },
                        x \in S }

Bodies ==
  { [estimation |-> [projectId |-> p, name |-> "Estimate",
                     totalHours |-> t, versionNumber |-> "1.0"],
     details |-> ds] :
    p \in {1, 9}, t \in {Num(12), ConcatString},
    ds \in SeqsUpTo(DetailChoices, MaxDetails) }

\* the slot a new request takes: the first one not in use
FreeRequest(c) ==
  /\ tx[c].pc = "idle"
  /\ \A j \in Requests : j < c => tx[j].pc # "idle"

\* projects LEFT JOIN screens LEFT JOIN estimations, both on the project
\* id: one row per (screen, estimation) combination of a project, with
\* id 0 standing for the NULL side of a project without screens or without
\* estimations
JoinedScreens(p) ==
  IF ProjectScreens(p) = {} THEN {0} ELSE Ids(ProjectScreens(p))

JoinedEstimations(p) ==
  IF { x \in estimations : x.projectId = p } = {}
    THEN { [id |-> 0, totalHours |-> 0] }
    ELSE { [id |-> x.id, totalHours |-> x.totalHours] :
           x \in { y \in estimations : y.projectId = p } }

DashboardJoin ==
  UNION { { [projectId |-> p, screenId |-> sc, estimationId |-> e.id,
             totalHours |-> e.totalHours] :
            sc \in JoinedScreens(p), e \in JoinedEstimations(p) } :
          p \in projects }

\* SUM(total_hours) over a set of rows
RECURSIVE SumTotalHours(_)
SumTotalHours(rows) ==
  IF rows = {} THEN 0
  ELSE LET r == CHOOSE x \in rows : TRUE
       IN r.totalHours + SumTotalHours(rows \ {r})

\* storage.getDashboardStats
getDashboardStats ==
  [totalProjects |-> Cardinality({ r.projectId : r \in DashboardJoin }),
   totalScreens |-> Cardinality({ r.screenId : r \in DashboardJoin } \ {0}),
   totalEstimations |->
     Cardinality({ r.estimationId : r \in DashboardJoin } \ {0}),
   totalHours |-> SumTotalHours(DashboardJoin)]

\* storage.getProjectHoursData: projects LEFT JOIN estimations grouped by
\* project, as a function from project id to the sum
getProjectHoursData ==
  [p \in projects |->
     SumTotalHours({ [id |-> x.id, totalHours |-> x.totalHours] :
                     x \in { y \in estimations : y.projectId = p } })]

\* the hour-mapping pair of the master rows the details refer to
MappedComplexity == <<"M", "e", "d">>
MappedBehavior == <<"P", " ", "D">>

\* bodies whose header lacks a required field, has an empty one, or has
\* negative totalHours; each with one detail row that passes its constraints
InvalidHeaders ==
  { [projectId |-> 1, totalHours |-> Num(12), versionNumber |-> "1.0"],
    [projectId |-> 1, name |-> "Estimate", totalHours |-> Num(12)],
    [name |-> "Estimate", totalHours |-> Num(12), versionNumber |-> "1.0"],
    [projectId |-> 1, name |-> "", totalHours |-> Num(12),
     versionNumber |-> "1.0"],
    [projectId |-> 1, name |-> "Estimate", totalHours |-> Num(12),
     versionNumber |-> ""],
    [projectId |-> 1, name |-> "Estimate", totalHours |-> Num(-5),
     versionNumber |-> "1.0"] }

InvalidBodies ==
  { [estimation |-> h,
     details |-> << [screenId |-> 1, complexityId |-> 1, screenTypeId |-> 1,
                     calculatedHours |-> Num(12)] >>] : h \in InvalidHeaders }

\* bodies with one detail row whose complexityId or screenTypeId names no
\* row of the master tables
DanglingBodies ==
  { [estimation |-> [projectId |-> 1, name |-> "Estimate",
                     totalHours |-> Num(12), versionNumber |-> "1.0"],
     details |-> << [screenId |-> 1, complexityId |-> c, screenTypeId |-> t,
                     calculatedHours |-> Num(12)] >>] :
    c \in {1, 7}, t \in {1, 8} }

StoreNext ==
  \/ \E c \in Requests,
        body \in Bodies \cup InvalidBodies \cup DanglingBodies,
        userId \in {"", "u1"} :
       FreeRequest(c) /\ PostEstimations(c, body, userId)
  \/ \E c \in Requests, emptyThrows \in BOOLEAN :
       CreateEstimationDetails(c, emptyThrows)

\* a body that createEstimation persists: every row passes its constraints
Saved(body) ==
  /\ HeaderInsertable(body.estimation)
  /\ \A i \in 1..Len(body.details) : DetailInsertable(body.details[i])

\* estimations are saved one request at a time while an administrator edits
\* the hour mapping of the pair their details refer to
SnapshotRequests == Requests \cap (1..MaxSnapshotRequests)

SnapshotNext ==
  \/ \E c \in SnapshotRequests,
        body \in { x \in Bodies : Saved(x) } :
       FreeRequest(c) /\ PostEstimations(c, body, "u1")
  \/ \E c \in SnapshotRequests : CreateEstimationDetails(c, FALSE)
  \/ \E h \in WriteHours :
       PostHourMapping(MappedComplexity, MappedBehavior, h)
  \/ \E h \in WriteHours :
       PutHourMapping(HourMappingPath(MappedComplexity, MappedBehavior), h)

\* two calculator calls for pairs of one behaviour, while an administrator
\* rewrites the mapping of one of the pairs
PurityNext ==
  \/ \E k \in Calls, c \in ComplexityNames :
       getHoursFromMapping(k, c, MappedBehavior)
  \/ \E k \in Calls, storageOk \in BOOLEAN : GetHourMappingHours(k, storageOk)
  \/ \E k \in Calls : getHoursFromMappingReturn(k)
  \/ \E h \in WriteHours :
       PutHourMapping(HourMappingPath(MappedComplexity, MappedBehavior), h)

\* ------------------------------------------------------ master data routes
\* foreign keys without ON DELETE: a referenced row cannot be deleted
ProjectReferenced(id) == \E e \in estimations : e.projectId = id
ScreenReferenced(id) == \E d \in estimationDetails : d.screenId = id
ComplexityReferenced(id) == \E d \in estimationDetails : d.complexityId = id
ScreenTypeReferenced(id) == \E d \in estimationDetails : d.screenTypeId = id

\* an open createEstimation transaction has inserted a header of the
\* project: the key lock of that insert makes a delete of the project wait
ProjectLocked(id) ==
  \E c \in Requests : tx[c].pc = "header" /\ tx[c].header.projectId = id

\* POST /api/projects
PostProject ==
  /\ adminWrites < MaxAdminWrites
  /\ adminWrites' = adminWrites + 1
  /\ masterSerial.projects <= MaxMasterId
  /\ projects' = projects \cup {masterSerial.projects}
  /\ masterSerial' = [masterSerial EXCEPT !.projects = @ + 1]
  /\ httpStatus' = 201
  /\ UNCHANGED <<screens, complexityMaster, screenTypeMaster>>
  /\ UNCHANGED <<authVars, dayVars, engineVars, hourMapping, mappingWrites, lookup, storeVars, formVars>>

ProjectDeleteOutcome_cascade(id) ==
  [refused |-> FALSE,
   estimations |-> { e \in estimations : e.projectId # id },
   estimationDetails |->
     { d \in estimationDetails :
         \E e \in estimations : e.id = d.estimationId /\ e.projectId # id }]

\* delete from projects: estimations.project_id and the three keys of
\* estimation_details have no ON DELETE action, so the statement is refused
\* when the project, or a screen deleted with it, is referenced; nothing
\* cascades to estimations
ProjectDeleteOutcome(id) ==
  [refused |-> \/ ProjectReferenced(id)
               \/ \E sc \in ProjectScreens(id) : ScreenReferenced(sc.id),
   estimations |-> estimations,
   estimationDetails |-> estimationDetails]

\* DELETE /api/projects/:id: the screens of the project go with it
\* (ON DELETE CASCADE)
DeleteProject(id) ==
  /\ adminWrites < MaxAdminWrites
  /\ adminWrites' = adminWrites + 1
  /\ ~ProjectLocked(id)
  /\ IF ProjectDeleteOutcome(id).refused
       THEN /\ httpStatus' = 500
            /\ UNCHANGED <<projects, screens, estimations, estimationDetails>>
       ELSE /\ projects' = projects \ {id}
            /\ screens' = screens \ ProjectScreens(id)
            /\ estimations' = ProjectDeleteOutcome(id).estimations
            /\ estimationDetails' = ProjectDeleteOutcome(id).estimationDetails
            /\ httpStatus' = 204
  /\ UNCHANGED <<complexityMaster, screenTypeMaster, masterSerial>>
  /\ UNCHANGED <<nextEstimationId, nextDetailId, tx, submitted, failedIds>>
  /\ UNCHANGED <<authVars, dayVars, engineVars, hourMapping, mappingWrites, lookup, formVars>>

\* POST /api/screens
PostScreen(projectId) ==
  /\ adminWrites < MaxAdminWrites
  /\ adminWrites' = adminWrites + 1
  /\ masterSerial.screens <= MaxMasterId
  /\ IF projectId \in projects
       THEN /\ screens' = screens \cup
                 { [id |-> masterSerial.screens, projectId |-> projectId] }
            /\ httpStatus' = 201
       ELSE /\ httpStatus' = 500
            /\ UNCHANGED screens
  /\ masterSerial' = [masterSerial EXCEPT !.screens = @ + 1]
  /\ UNCHANGED <<projects, complexityMaster, screenTypeMaster>>
  /\ UNCHANGED <<authVars, dayVars, engineVars, hourMapping, mappingWrites, lookup, storeVars, formVars>>

\* PUT /api/screens/:id with a projectId
PutScreen(id, projectId) ==
  /\ adminWrites < MaxAdminWrites
  /\ adminWrites' = adminWrites + 1
  /\ IF projectId \in projects
       THEN /\ screens' = { IF sc.id = id THEN [sc EXCEPT !.projectId = projectId]
                            ELSE sc : sc \in screens }
            /\ httpStatus' = 200
       ELSE /\ httpStatus' = 500
            /\ UNCHANGED screens
  /\ UNCHANGED <<projects, complexityMaster, screenTypeMaster, masterSerial>>
  /\ UNCHANGED <<authVars, dayVars, engineVars, hourMapping, mappingWrites, lookup, storeVars, formVars>>

\* DELETE /api/screens/:id
DeleteScreen(id) ==
  /\ adminWrites < MaxAdminWrites
  /\ adminWrites' = adminWrites + 1
  /\ IF ScreenReferenced(id)
       THEN /\ httpStatus' = 500
            /\ UNCHANGED screens
       ELSE /\ screens' = { sc \in screens : sc.id # id }
            /\ httpStatus' = 204
  /\ UNCHANGED <<projects, complexityMaster, screenTypeMaster, masterSerial>>
  /\ UNCHANGED <<authVars, dayVars, engineVars, hourMapping, mappingWrites, lookup, storeVars, formVars>>

\* insertComplexitySchema / insertScreenTypeSchema.parse: hours is a number
\* (createInsertSchema of an integer column)
MasterParses(hours) == IsInteger(hours)

\* insert into a master table: name is unique
MasterInserted(rows, id, name, hours) ==
  IF \E r \in rows : r.name = name THEN rows
  ELSE rows \cup { [id |-> id, name |-> name, hours |-> hours.v] }

\* update of a master row: name stays unique; no row of that id, no change
MasterUpdated(rows, id, name, hours) ==
  IF \E r \in rows : r.id # id /\ r.name = name THEN rows
  ELSE { IF r.id = id THEN [r EXCEPT !.name = name, !.hours = hours.v]
         ELSE r : r \in rows }

MasterDeleted_unchecked(rows, id, referenced) == { r \in rows : r.id # id }

\* delete of a master row, refused by the foreign key of estimation_details
MasterDeleted(rows, id, referenced) ==
  IF referenced THEN rows ELSE { r \in rows : r.id # id }

\* POST /api/complexity
PostComplexity(name, hours) ==
  /\ adminWrites < MaxAdminWrites
  /\ adminWrites' = adminWrites + 1
  /\ masterSerial.complexityMaster <= MaxMasterId
  /\ IF ~MasterParses(hours)
       THEN /\ httpStatus' = 500
            /\ UNCHANGED <<complexityMaster, masterSerial>>
       ELSE /\ complexityMaster' =
                 MasterInserted(complexityMaster,
                                masterSerial.complexityMaster, name, hours)
            /\ masterSerial' = [masterSerial EXCEPT !.complexityMaster = @ + 1]
            /\ httpStatus' = IF \E r \in complexityMaster : r.name = name
                               THEN 500 ELSE 201
  /\ UNCHANGED <<projects, screens, screenTypeMaster>>
  /\ UNCHANGED <<authVars, dayVars, engineVars, hourMapping, mappingWrites, lookup, storeVars, formVars>>

\* PUT /api/complexity/:id with name and hours
PutComplexity(id, name, hours) ==
  /\ adminWrites < MaxAdminWrites
  /\ adminWrites' = adminWrites + 1
  /\ IF ~MasterParses(hours)
       THEN /\ httpStatus' = 500
            /\ UNCHANGED complexityMaster
       ELSE /\ complexityMaster' = MasterUpdated(complexityMaster, id, name, hours)
            /\ httpStatus' =
                 IF \E r \in complexityMaster : r.id # id /\ r.name = name
                   THEN 500 ELSE 200
  /\ UNCHANGED <<projects, screens, screenTypeMaster, masterSerial>>
  /\ UNCHANGED <<authVars, dayVars, engineVars, hourMapping, mappingWrites, lookup, storeVars, formVars>>

\* DELETE /api/complexity/:id
DeleteComplexity(id) ==
  /\ adminWrites < MaxAdminWrites
  /\ adminWrites' = adminWrites + 1
  /\ complexityMaster' =
       MasterDeleted(complexityMaster, id, ComplexityReferenced(id))
  /\ httpStatus' = IF ComplexityReferenced(id) THEN 500 ELSE 204
  /\ UNCHANGED <<projects, screens, screenTypeMaster, masterSerial>>
  /\ UNCHANGED <<authVars, dayVars, engineVars, hourMapping, mappingWrites, lookup, storeVars, formVars>>

\* POST /api/screen-types
PostScreenType(name, hours) ==
  /\ adminWrites < MaxAdminWrites
  /\ adminWrites' = adminWrites + 1
  /\ masterSerial.screenTypeMaster <= MaxMasterId
  /\ IF ~MasterParses(hours)
       THEN /\ httpStatus' = 500
            /\ UNCHANGED <<screenTypeMaster, masterSerial>>
       ELSE /\ screenTypeMaster' =
                 MasterInserted(screenTypeMaster,
                                masterSerial.screenTypeMaster, name, hours)
            /\ masterSerial' = [masterSerial EXCEPT !.screenTypeMaster = @ + 1]
            /\ httpStatus' = IF \E r \in screenTypeMaster : r.name = name
                               THEN 500 ELSE 201
  /\ UNCHANGED <<projects, screens, complexityMaster>>
  /\ UNCHANGED <<authVars, dayVars, engineVars, hourMapping, mappingWrites, lookup, storeVars, formVars>>

\* PUT /api/screen-types/:id with name and hours
PutScreenType(id, name, hours) ==
  /\ adminWrites < MaxAdminWrites
  /\ adminWrites' = adminWrites + 1
  /\ IF ~MasterParses(hours)
       THEN /\ httpStatus' = 500
            /\ UNCHANGED screenTypeMaster
       ELSE /\ screenTypeMaster' = MasterUpdated(screenTypeMaster, id, name, hours)
            /\ httpStatus' =
                 IF \E r \in screenTypeMaster : r.id # id /\ r.name = name
                   THEN 500 ELSE 200
  /\ UNCHANGED <<projects, screens, complexityMaster, masterSerial>>
  /\ UNCHANGED <<authVars, dayVars, engineVars, hourMapping, mappingWrites, lookup, storeVars, formVars>>

\* DELETE /api/screen-types/:id
DeleteScreenType(id) ==
  /\ adminWrites < MaxAdminWrites
  /\ adminWrites' = adminWrites + 1
  /\ screenTypeMaster' =
       MasterDeleted(screenTypeMaster, id, ScreenTypeReferenced(id))
  /\ httpStatus' = IF ScreenTypeReferenced(id) THEN 500 ELSE 204
  /\ UNCHANGED <<projects, screens, complexityMaster, masterSerial>>
  /\ UNCHANGED <<authVars, dayVars, engineVars, hourMapping, mappingWrites, lookup, storeVars, formVars>>

\* a name no seeded master row has, and the hours values sent to the
\* master routes: a positive number, zero, and text
NewName == <<"N", "e", "w">>
MasterHours == { Num(5), Num(0), ConcatString }

\* nothing is persisted and no createEstimation call is open
NoEstimation == estimations = {} /\ \A c \in Requests : tx[c].pc = "idle"

\* one estimation is saved while an administrator edits projects, screens
\* and the master lists
MasterNext ==
  \/ \E c \in SnapshotRequests, body \in { x \in Bodies : Saved(x) } :
       NoEstimation /\ FreeRequest(c) /\ PostEstimations(c, body, "u1")
  \/ \E c \in SnapshotRequests : CreateEstimationDetails(c, FALSE)
  \/ PostProject
  \/ \E id \in projects : DeleteProject(id)
  \/ \E p \in projects : PostScreen(p)
  \/ \E sc \in screens, p \in projects : p # sc.projectId /\ PutScreen(sc.id, p)
  \/ \E sc \in screens : DeleteScreen(sc.id)
  \/ \E n \in {NewName, MappedComplexity}, h \in MasterHours :
       PostComplexity(n, h)
  \/ \E r \in complexityMaster, h \in MasterHours :
       \E n \in {r.name, NewName} : PutComplexity(r.id, n, h)
  \/ \E r \in complexityMaster : DeleteComplexity(r.id)
  \/ \E n \in {NewName, MappedBehavior}, h \in MasterHours :
       PostScreenType(n, h)
  \/ \E r \in screenTypeMaster, h \in MasterHours :
       \E n \in {r.name, NewName} : PutScreenType(r.id, n, h)
  \/ \E r \in screenTypeMaster : DeleteScreenType(r.id)

\* -------------------------------------------------------------- the forms
Pages == {"SimplifiedEstimations", "Estimations", "EstimationStepper"}
NoBody == [estimation |-> <<>>, details |-> <<>>]
NoUpdate == [active |-> FALSE, items |-> <<>>, id |-> 0, field |-> "",
             value |-> <<>>]

FormInit ==
  /\ page = "SimplifiedEstimations"
  /\ selectedProjectId = 0
  /\ estimationItems = <<>>
  /\ nextItemId = 1
  /\ updateCalls = [k \in Calls |-> NoUpdate]
  /\ estimationScreens = <<>>
  /\ formScreens = <<>>
  /\ posted = NoBody

\* reduce((sum, x) => sum + x.hours, 0) over a list of hours
RECURSIVE SumJs(_)
SumJs(hours) ==
  IF hours = <<>> THEN Num(0)
  ELSE JsAdd(SumJs(SubSeq(hours, 1, Len(hours) - 1)), hours[Len(hours)])

\* list.filter((_, i) => i # index)
RemoveAt(list, index) ==
  [i \in 1..(Len(list) - 1) |-> IF i < index THEN list[i] ELSE list[i + 1]]

\* list.filter(item => item.id # id)
RECURSIVE RemoveId(_, _)
RemoveId(list, id) ==
  IF list = <<>> THEN <<>>
  ELSE (IF Head(list).id = id THEN <<>> ELSE <<Head(list)>>)
         \o RemoveId(Tail(list), id)

\* rows.find(r => r.name === name)?.id || 1
IdOfNameOr1(rows, name) ==
  IF \E r \in rows : r.name = name
    THEN (CHOOSE r \in rows : r.name = name).id
    ELSE 1

\* the first row of a master list as the API returns it (ordered by hours)
FirstByHours(rows) == CHOOSE r \in rows : \A q \in rows : r.hours <= q.hours

FirstScreen(projectId) ==
  CHOOSE sc \in ProjectScreens(projectId) :
    \A q \in ProjectScreens(projectId) : sc.id <= q.id

\* projects[0] of GET /api/projects (newest first)
FirstProject == CHOOSE p \in projects : \A q \in projects : p >= q

\* Math.round(4 * parseFloat(c.multiplier || '1.00') *
\* parseFloat(s.multiplier || '1.00')): the master rows have no multiplier
MultiplierHours == 4

\* the page is left: its state is dropped with its pending continuations
Navigate(p) ==
  /\ p # page
  /\ page' = p
  /\ selectedProjectId' = 0
  /\ estimationItems' = <<>>
  /\ updateCalls' = [k \in Calls |-> NoUpdate]
  /\ estimationScreens' = <<>>
  /\ formScreens' = <<>>
  /\ posted' = NoBody
  /\ lookup' = [k \in Calls |-> IdleCall]
  /\ nextItemId' = 1
  /\ UNCHANGED <<authVars, dayVars, engineVars, mappingVars, masterVars, storeVars>>

\* the project select of SimplifiedEstimations and of Estimations
SelectProject(projectId) ==
  /\ page \in {"SimplifiedEstimations", "Estimations"}
  /\ selectedProjectId # projectId
  /\ selectedProjectId' = projectId
  /\ estimationScreens' = IF page = "Estimations" THEN <<>>
                          ELSE estimationScreens
  /\ UNCHANGED <<page, estimationItems, nextItemId, updateCalls,
                 formScreens, posted>>
  /\ UNCHANGED <<authVars, dayVars, engineVars, mappingVars, masterVars, storeVars, lookup>>

\* ---- SimplifiedEstimations
addEstimationItem ==
  /\ page = "SimplifiedEstimations"
  /\ Len(estimationItems) < MaxItems
  /\ nextItemId <= MaxItemIds
  /\ estimationItems' = Append(estimationItems,
       [id |-> nextItemId, screenType |-> EmptyName, complexity |-> EmptyName,
        screenTypeName |-> EmptyName, hours |-> Num(0)])
  /\ nextItemId' = nextItemId + 1
  /\ UNCHANGED <<page, selectedProjectId, updateCalls, estimationScreens,
                 formScreens, posted>>
  /\ UNCHANGED <<authVars, dayVars, engineVars, mappingVars, masterVars, storeVars, lookup>>

removeEstimationItem(id) ==
  /\ page = "SimplifiedEstimations"
  /\ \E i \in 1..Len(estimationItems) : estimationItems[i].id = id
  /\ estimationItems' = RemoveId(estimationItems, id)
  /\ UNCHANGED <<page, selectedProjectId, nextItemId, updateCalls,
                 estimationScreens, formScreens, posted>>
  /\ UNCHANGED <<authVars, dayVars, engineVars, mappingVars, masterVars, storeVars, lookup>>

\* { ...item, [field]: value } with the hours of the lookup
UpdatedItem_accumulating(item, field, value, hours) ==
  IF field = "screenType" THEN [item EXCEPT !.screenType = value]
  ELSE IF field = "complexity"
    THEN [item EXCEPT !.complexity = value,
                      !.hours = Num(item.hours.v + hours.v)]
  ELSE [item EXCEPT !.screenTypeName = value,
                    !.hours = Num(item.hours.v + hours.v)]

UpdatedItem(item, field, value, hours) ==
  IF field = "complexity"
    THEN [item EXCEPT !.complexity = value, !.hours = hours]
  ELSE IF field = "screenTypeName"
    THEN [item EXCEPT !.screenTypeName = value, !.hours = hours]
  ELSE [item EXCEPT !.screenType = value]

\* estimationItems.map(...) of updateEstimationItem on the list it captured
UpdatedItems(items, id, field, value, hours) ==
  [i \in 1..Len(items) |->
     IF items[i].id = id THEN UpdatedItem(items[i], field, value, hours)
     ELSE items[i]]

\* the arguments of the lookup updateEstimationItem makes for an item
LookupComplexity(item, field, value) ==
  IF field = "complexity" THEN value ELSE item.complexity
LookupBehavior(item, field, value) ==
  IF field = "screenTypeName" THEN value ELSE item.screenTypeName

\* updateEstimationItem up to its await.  Without a request (another field,
\* an empty name) nothing is awaited but resolved promises, and the list
\* is set before any other event.
updateEstimationItem(k, i, field, value) ==
  /\ page = "SimplifiedEstimations"
  /\ i \in 1..Len(estimationItems)
  /\ ~updateCalls[k].active
  /\ LET item == estimationItems[i]
         call == CallStarted(LookupComplexity(item, field, value),
                             LookupBehavior(item, field, value))
     IN IF field = "screenType" \/ call.pc = "done"
          THEN /\ estimationItems' =
                    UpdatedItems(estimationItems, item.id, field, value, Num(0))
               /\ UNCHANGED <<updateCalls, lookup>>
          ELSE /\ updateCalls' = [updateCalls EXCEPT ![k] =
                    [active |-> TRUE, items |-> estimationItems,
                     id |-> item.id, field |-> field, value |-> value]]
               /\ lookup' = [lookup EXCEPT ![k] = call]
               /\ UNCHANGED estimationItems
  /\ UNCHANGED <<page, selectedProjectId, nextItemId, estimationScreens,
                 formScreens, posted>>
  /\ UNCHANGED <<authVars, dayVars, engineVars, mappingVars, masterVars, storeVars>>

\* updateEstimationItem from the response of its lookup to
\* setEstimationItems(updatedItems)
updateEstimationItemResume(k) ==
  /\ page = "SimplifiedEstimations"
  /\ updateCalls[k].active
  /\ lookup[k].pc = "responded"
  /\ estimationItems' =
       UpdatedItems(updateCalls[k].items, updateCalls[k].id,
                    updateCalls[k].field, updateCalls[k].value,
                    HoursOfResponse(lookup[k].resp))
  /\ updateCalls' = [updateCalls EXCEPT ![k] = NoUpdate]
  /\ lookup' = [lookup EXCEPT ![k] = IdleCall]
  /\ UNCHANGED <<page, selectedProjectId, nextItemId, estimationScreens,
                 formScreens, posted>>
  /\ UNCHANGED <<authVars, dayVars, engineVars, mappingVars, masterVars, storeVars>>

SimplifiedTotalHours ==
  SumJs([i \in 1..Len(estimationItems) |-> estimationItems[i].hours])

\* SimplifiedEstimations.validateForm / handleSubmit (name and version
\* number are filled in with valid text)
SimplifiedHandleSubmit ==
  /\ page = "SimplifiedEstimations"
  /\ posted = NoBody
  /\ selectedProjectId # 0
  /\ Len(estimationItems) > 0
  /\ posted' =
       [estimation |-> [projectId |-> selectedProjectId, name |-> "Estimate",
                        totalHours |-> SimplifiedTotalHours,
                        versionNumber |-> "1.0"],
        details |-> [i \in 1..Len(estimationItems) |->
           [screenId |-> 6,
            complexityId |-> IdOfNameOr1(complexityMaster,
                                         estimationItems[i].complexity),
            screenTypeId |-> IdOfNameOr1(screenTypeMaster,
                                         estimationItems[i].screenTypeName),
            calculatedHours |-> estimationItems[i].hours]]]
  /\ UNCHANGED <<page, selectedProjectId, estimationItems, nextItemId,
                 updateCalls, estimationScreens, formScreens>>
  /\ UNCHANGED <<authVars, dayVars, engineVars, mappingVars, masterVars, storeVars, lookup>>

\* ---- Estimations
addScreen ==
  /\ page = "Estimations"
  /\ Len(estimationScreens) < MaxItems
  /\ selectedProjectId # 0
  /\ ProjectScreens(selectedProjectId) # {}
  /\ complexityMaster # {} /\ screenTypeMaster # {}
  /\ estimationScreens' = Append(estimationScreens,
       [screenId |-> FirstScreen(selectedProjectId).id,
        complexity |-> FirstByHours(complexityMaster).name,
        screenType |-> FirstByHours(screenTypeMaster).name,
        hours |-> Num(MultiplierHours)])
  /\ UNCHANGED <<page, selectedProjectId, estimationItems, nextItemId,
                 updateCalls, formScreens, posted>>
  /\ UNCHANGED <<authVars, dayVars, engineVars, mappingVars, masterVars, storeVars, lookup>>

removeScreen(index) ==
  /\ page = "Estimations"
  /\ index \in 1..Len(estimationScreens)
  /\ estimationScreens' = RemoveAt(estimationScreens, index)
  /\ UNCHANGED <<page, selectedProjectId, estimationItems, nextItemId,
                 updateCalls, formScreens, posted>>
  /\ UNCHANGED <<authVars, dayVars, engineVars, mappingVars, masterVars, storeVars, lookup>>

\* rows of table generic_screen_types (GET /api/generic-screen-types)
genericScreenTypes == { [id |-> 1, name |-> "Form"] }

\* SmartEstimationEngine.calculateHours as its caller sees it: the function
\* is async, so the call evaluates to a promise (the lookup it starts
\* settles that promise, which nobody reads)
calculateHours(complexityData, behaviorData) == PendingPromise

\* Estimations.updateScreen for the fields complexity and screenType
updateScreen(index, field, value) ==
  /\ page = "Estimations"
  /\ index \in 1..Len(estimationScreens)
  /\ LET complexity == IF field = "complexity" THEN value
                       ELSE estimationScreens[index].complexity
         screenType == IF field = "screenType" THEN value
                       ELSE estimationScreens[index].screenType
         found == /\ genericScreenTypes # {}
                  /\ \E c \in complexityMaster : c.name = complexity
                  /\ \E b \in screenTypeMaster : b.name = screenType
         hours == IF found
                    THEN calculateHours(
                           CHOOSE c \in complexityMaster : c.name = complexity,
                           CHOOSE b \in screenTypeMaster : b.name = screenType)
                    ELSE estimationScreens[index].hours
     IN estimationScreens' = [estimationScreens EXCEPT ![index] =
          [@ EXCEPT !.complexity = complexity, !.screenType = screenType,
                    !.hours = hours]]
  /\ UNCHANGED <<page, selectedProjectId, estimationItems, nextItemId,
                 updateCalls, formScreens, posted>>
  /\ UNCHANGED <<authVars, dayVars, engineVars, mappingVars, masterVars, storeVars, lookup>>

EstimationsTotalHours ==
  SumJs([i \in 1..Len(estimationScreens) |-> estimationScreens[i].hours])

\* Estimations.validateForm / handleSubmit (name and version left empty are
\* generated; no project selected falls back to the first project)
EstimationsHandleSubmit ==
  /\ page = "Estimations"
  /\ posted = NoBody
  /\ posted' =
       [estimation |-> [projectId |-> IF selectedProjectId # 0
                                        THEN selectedProjectId
                                        ELSE FirstProject,
                        name |-> "Estimate",
                        totalHours |-> EstimationsTotalHours,
                        versionNumber |-> "1.0"],
        details |-> [i \in 1..Len(estimationScreens) |->
           [screenId |-> estimationScreens[i].screenId,
            complexityId |-> IdOfNameOr1(complexityMaster,
                                         estimationScreens[i].complexity),
            screenTypeId |-> IdOfNameOr1(screenTypeMaster,
                                         estimationScreens[i].screenType),
            calculatedHours |-> estimationScreens[i].hours]]]
  /\ UNCHANGED <<page, selectedProjectId, estimationItems, nextItemId,
                 updateCalls, estimationScreens, formScreens>>
  /\ UNCHANGED <<authVars, dayVars, engineVars, mappingVars, masterVars, storeVars, lookup>>

\* ---- EstimationStepper
handleProjectChange(projectId) ==
  /\ page = "EstimationStepper"
  /\ selectedProjectId' = projectId
  /\ formScreens' = <<>>
  /\ UNCHANGED <<page, estimationItems, nextItemId, updateCalls,
                 estimationScreens, posted>>
  /\ UNCHANGED <<authVars, dayVars, engineVars, mappingVars, masterVars, storeVars, lookup>>

handleAddScreen ==
  /\ page = "EstimationStepper"
  /\ Len(formScreens) < MaxItems
  /\ selectedProjectId > 0
  /\ ProjectScreens(selectedProjectId) # {}
  /\ formScreens' = Append(formScreens,
       [screenId |-> FirstScreen(selectedProjectId).id,
        complexityId |-> IF complexityMaster = {} THEN 0
                         ELSE FirstByHours(complexityMaster).id,
        screenTypeId |-> IF screenTypeMaster = {} THEN 0
                         ELSE FirstByHours(screenTypeMaster).id,
        calculatedHours |->
          Num((IF complexityMaster = {} THEN 0
               ELSE FirstByHours(complexityMaster).hours)
            + (IF screenTypeMaster = {} THEN 0
               ELSE FirstByHours(screenTypeMaster).hours))])
  /\ UNCHANGED <<page, selectedProjectId, estimationItems, nextItemId,
                 updateCalls, estimationScreens, posted>>
  /\ UNCHANGED <<authVars, dayVars, engineVars, mappingVars, masterVars, storeVars, lookup>>

\* ScreenEstimationRow.handleComplexityChange with handleUpdateScreen
handleComplexityChange(index, complexityId) ==
  /\ page = "EstimationStepper"
  /\ index \in 1..Len(formScreens)
  /\ formScreens' = [formScreens EXCEPT ![index] =
       [@ EXCEPT !.complexityId = complexityId,
                 !.calculatedHours = Num(MultiplierHours)]]
  /\ UNCHANGED <<page, selectedProjectId, estimationItems, nextItemId,
                 updateCalls, estimationScreens, posted>>
  /\ UNCHANGED <<authVars, dayVars, engineVars, mappingVars, masterVars, storeVars, lookup>>

\* ScreenEstimationRow.handleScreenTypeChange with handleUpdateScreen
handleScreenTypeChange(index, screenTypeId) ==
  /\ page = "EstimationStepper"
  /\ index \in 1..Len(formScreens)
  /\ formScreens' = [formScreens EXCEPT ![index] =
       [@ EXCEPT !.screenTypeId = screenTypeId,
                 !.calculatedHours = Num(MultiplierHours)]]
  /\ UNCHANGED <<page, selectedProjectId, estimationItems, nextItemId,
                 updateCalls, estimationScreens, posted>>
  /\ UNCHANGED <<authVars, dayVars, engineVars, mappingVars, masterVars, storeVars, lookup>>

handleRemoveScreen(index) ==
  /\ page = "EstimationStepper"
  /\ index \in 1..Len(formScreens)
  /\ formScreens' = RemoveAt(formScreens, index)
  /\ UNCHANGED <<page, selectedProjectId, estimationItems, nextItemId,
                 updateCalls, estimationScreens, posted>>
  /\ UNCHANGED <<authVars, dayVars, engineVars, mappingVars, masterVars, storeVars, lookup>>

calculateTotalHours ==
  SumJs([i \in 1..Len(formScreens) |-> formScreens[i].calculatedHours])

\* EstimationStepper.handleSubmit and the mutationFn up to its request
\* (name and version number are filled in)
StepperHandleSubmit ==
  /\ page = "EstimationStepper"
  /\ posted = NoBody
  /\ selectedProjectId # 0
  /\ Len(formScreens) > 0
  /\ posted' =
       [estimation |-> [projectId |-> selectedProjectId, name |-> "Estimate",
                        totalHours |-> calculateTotalHours,
                        versionNumber |-> "1.0"],
        details |-> [i \in 1..Len(formScreens) |->
           [screenId |-> formScreens[i].screenId,
            complexityId |-> formScreens[i].complexityId,
            screenTypeId |-> formScreens[i].screenTypeId,
            calculatedHours |-> formScreens[i].calculatedHours]]]
  /\ UNCHANGED <<page, selectedProjectId, estimationItems, nextItemId,
                 updateCalls, estimationScreens, formScreens>>
  /\ UNCHANGED <<authVars, dayVars, engineVars, mappingVars, masterVars, storeVars, lookup>>

\* the mutation settles: onSuccess resets the form, onError leaves it
MutationSettled(ok) ==
  /\ posted # NoBody
  /\ posted' = NoBody
  /\ IF ok
       THEN /\ selectedProjectId' = 0
            /\ estimationItems' = IF page = "SimplifiedEstimations" THEN <<>>
                                  ELSE estimationItems
            /\ estimationScreens' = IF page = "Estimations" THEN <<>>
                                    ELSE estimationScreens
            /\ formScreens' = IF page = "EstimationStepper" THEN <<>>
                              ELSE formScreens
       ELSE UNCHANGED <<selectedProjectId, estimationItems, estimationScreens,
                        formScreens>>
  /\ UNCHANGED <<page, nextItemId, updateCalls>>
  /\ UNCHANGED <<authVars, dayVars, engineVars, mappingVars, masterVars, storeVars, lookup>>

\* the selects that decide an item's hours, and the values chosen in them
ItemFields == {"complexity", "screenTypeName"}
FieldValues(field) ==
  IF field = "complexity" THEN ComplexityNames ELSE { <<"P", " ", "D">> }

\* the slot a new updateEstimationItem call takes: the first one not in use
FreeCall(k) ==
  /\ ~updateCalls[k].active
  /\ \A j \in CalcCalls : j < k => updateCalls[j].active

\* no request of the form is in flight
Settled == posted = NoBody

\* The user works on one form at a time and, having submitted, waits for
\* the request to settle before touching the form again.
FormNext ==
  \/ \E p \in Pages : Navigate(p)
  \/ Settled /\ \E p \in projects : SelectProject(p)
  \/ Settled /\ addEstimationItem
  \/ Settled /\ \E i \in 1..MaxItemIds : removeEstimationItem(i)
  \/ Settled /\ \E k \in CalcCalls, i \in 1..MaxItems, f \in ItemFields :
       \E v \in FieldValues(f) : FreeCall(k) /\ updateEstimationItem(k, i, f, v)
  \/ \E k \in Calls, ok \in BOOLEAN : GetHourMappingHours(k, ok)
  \/ \E k \in Calls : updateEstimationItemResume(k)
  \/ SimplifiedHandleSubmit
  \/ Settled /\ addScreen
  \/ Settled /\ \E i \in 1..MaxItems : removeScreen(i)
  \/ Settled /\ \E i \in 1..MaxItems, c \in complexityMaster :
       updateScreen(i, "complexity", c.name)
  \/ Settled /\ \E i \in 1..MaxItems, b \in screenTypeMaster :
       updateScreen(i, "screenType", b.name)
  \/ EstimationsHandleSubmit
  \/ Settled /\ \E p \in projects : handleProjectChange(p)
  \/ Settled /\ handleAddScreen
  \/ Settled /\ \E i \in 1..MaxItems, c \in complexityMaster :
       handleComplexityChange(i, c.id)
  \/ Settled /\ \E i \in 1..MaxItems, b \in screenTypeMaster :
       handleScreenTypeChange(i, b.id)
  \/ Settled /\ \E i \in 1..MaxItems : handleRemoveScreen(i)
  \/ StepperHandleSubmit
  \/ \E ok \in BOOLEAN : MutationSettled(ok)

\* ------------------------------------------------------------ email login
\* email addresses clients send: one address in two spellings, a second
\* address, and a text without @
MailA == <<"a", "@", "x">>
MailAUpper == <<"A", "@", "x">>
MailB == <<"b", "@", "x">>
NoAtSign == <<"a", "x">>
Mails == { MailA, MailAUpper, MailB, NoAtSign, EmptyName }

\* String.prototype.toLowerCase on the characters in use
LowerChar(c) == IF c = "A" THEN "a" ELSE c
toLowerCase(str) == [i \in 1..Len(str) |-> LowerChar(str[i])]

\* email.includes('@')
IncludesAt(str) == \E i \in 1..Len(str) : str[i] = "@"

\* generateOTP: a random six-digit text, of which two are told apart
Otps == { "111111", "222222" }

\* OTP_EXPIRY_MINUTES, one unit of the clock
OtpExpiry == 1

Clients == 1..MaxClients
Verifies == 1..MaxVerifies
NoUser == <<>>
IdleVerify == [pc |-> "idle", email |-> <<>>, issue |-> 0, client |-> 0,
               expires |-> 0, checkedAt |-> 0]

AuthInit ==
  /\ now = 0
  /\ otpStore = {}
  /\ otpIssued = 0
  /\ verify = [v \in Verifies |-> IdleVerify]
  /\ sessions = [c \in Clients |-> NoUser]
  /\ logins = <<>>

\* otpStore.get(email)
StoredOtp(email) == { r \in otpStore : r.email = email }

\* otpStore.delete(email)
OtpDeleted(email) == otpStore \ StoredOtp(email)

\* otpStore.set(email, {otp, expires}); issue is history: the number of
\* the send-otp call that stored the entry
OtpSet(email, otp) ==
  OtpDeleted(email) \cup
    { [email |-> email, otp |-> otp, expires |-> now + OtpExpiry,
       issue |-> otpIssued + 1] }

\* the clock advances
Tick ==
  /\ now < MaxTime
  /\ now' = now + 1
  /\ UNCHANGED <<otpStore, otpIssued, verify, sessions, logins>>
  /\ UNCHANGED <<dayVars, engineVars, mappingVars, lookup, masterVars, storeVars, formVars>>

\* POST /api/auth/send-otp
SendOtp(email, otp) ==
  /\ otpIssued < MaxOtpIssues
  /\ IF email = EmptyName \/ ~IncludesAt(email)
       THEN /\ httpStatus' = 400
            /\ UNCHANGED <<otpStore, otpIssued>>
       ELSE /\ otpStore' = OtpSet(toLowerCase(email), otp)
            /\ otpIssued' = otpIssued + 1
            /\ httpStatus' = 200
  /\ UNCHANGED <<now, verify, sessions, logins>>
  /\ UNCHANGED <<dayVars, engineVars, hourMapping, mappingWrites, lookup, masterVars,
                 storeVars, formVars>>

\* POST /api/auth/verify-otp up to its first await: the checks of the body
\* and of the stored OTP (otp "" is a body without otp)
VerifyOtpCheck(v, client, email, otp) ==
  /\ verify[v].pc = "idle"
  /\ Len(logins) < MaxLogins
  /\ LET emailLower == toLowerCase(email)
         stored == StoredOtp(emailLower)
     IN IF email = EmptyName \/ otp = ""
          THEN /\ httpStatus' = 400
               /\ UNCHANGED <<otpStore, verify>>
        ELSE IF stored = {}
          THEN /\ httpStatus' = 400
               /\ UNCHANGED <<otpStore, verify>>
        ELSE LET storedData == CHOOSE r \in stored : TRUE
             IN IF now > storedData.expires
                  THEN /\ otpStore' = OtpDeleted(emailLower)
                       /\ httpStatus' = 400
                       /\ UNCHANGED verify
                ELSE IF storedData.otp # otp
                  THEN /\ httpStatus' = 400
                       /\ UNCHANGED <<otpStore, verify>>
                ELSE /\ verify' = [verify EXCEPT ![v] =
                          [pc |-> "user", email |-> emailLower,
                           issue |-> storedData.issue, client |-> client,
                           expires |-> storedData.expires, checkedAt |-> now]]
                     /\ httpStatus' = 0
                     /\ UNCHANGED otpStore
  /\ UNCHANGED <<now, otpIssued, sessions, logins>>
  /\ UNCHANGED <<dayVars, engineVars, hourMapping, mappingWrites, lookup, masterVars,
                 storeVars, formVars>>

\* the login a verify-otp request records; latest: whether the OTP it
\* checked is the one stored for the email as the session is set
LoginOf(request) ==
  [issue |-> request.issue, email |-> request.email,
   client |-> request.client, checkedAt |-> request.checkedAt,
   expires |-> request.expires,
   latest |-> \E r \in StoredOtp(request.email) : r.issue = request.issue]

\* verify-otp from the answer of the user lookup to the response: the OTP
\* is deleted and the session set; userOk = FALSE is the lookup throwing
VerifyOtpLogin(v, userOk) ==
  /\ verify[v].pc = "user"
  /\ IF userOk
       THEN /\ otpStore' = OtpDeleted(verify[v].email)
            /\ sessions' = [sessions EXCEPT ![verify[v].client] = verify[v].email]
            /\ logins' = Append(logins, LoginOf(verify[v]))
            /\ httpStatus' = 200
       ELSE /\ httpStatus' = 500
            /\ UNCHANGED <<otpStore, sessions, logins>>
  /\ verify' = [verify EXCEPT ![v] = IdleVerify]
  /\ UNCHANGED <<now, otpIssued>>
  /\ UNCHANGED <<dayVars, engineVars, hourMapping, mappingWrites, lookup, masterVars,
                 storeVars, formVars>>

\* POST /api/auth/logout: session.destroy; destroyOk = FALSE is the session
\* store failing to remove the session
Logout(client, destroyOk) ==
  /\ IF destroyOk
       THEN /\ sessions' = [sessions EXCEPT ![client] = NoUser]
            /\ httpStatus' = 200
       ELSE /\ httpStatus' = 500
            /\ UNCHANGED sessions
  /\ UNCHANGED <<now, otpStore, otpIssued, verify, logins>>
  /\ UNCHANGED <<dayVars, engineVars, hourMapping, mappingWrites, lookup, masterVars,
                 storeVars, formVars>>

\* the slot a new verify-otp request takes: the first one not in use
FreeVerify(v) ==
  /\ verify[v].pc = "idle"
  /\ \A j \in Verifies : j < v => verify[j].pc # "idle"

AuthNext ==
  \/ Tick
  \/ \E email \in Mails, otp \in Otps : SendOtp(email, otp)
  \/ \E v \in Verifies, client \in Clients, email \in Mails,
        otp \in Otps \cup {""} :
       FreeVerify(v) /\ VerifyOtpCheck(v, client, email, otp)
  \/ \E v \in Verifies, userOk \in BOOLEAN : VerifyOtpLogin(v, userOk)
  \/ \E client \in Clients, destroyOk \in BOOLEAN : Logout(client, destroyOk)

\* ---- the guard of the data routes
\* isAuthenticated: the request's session has a userId
isAuthenticated(client) == sessions[client] # NoUser

\* res.status(401) of the guard: the handler is not run
Unauthorized ==
  /\ httpStatus' = 401
  /\ UNCHANGED <<authVars, dayVars, engineVars, hourMapping, mappingWrites, lookup,
                 masterVars, storeVars, formVars>>

\* app.<method>(path, isAuthenticated, handler)
Guarded(client, Handler) ==
  IF isAuthenticated(client) THEN Handler ELSE Unauthorized

\* GET /api/dashboard/stats: a read
GetDashboardStats ==
  /\ httpStatus' = 200
  /\ UNCHANGED <<authVars, dayVars, engineVars, hourMapping, mappingWrites, lookup,
                 masterVars, storeVars, formVars>>

\* no data route has written yet
FirstWrite == adminWrites = 0 /\ mappingWrites = 0 /\ NoEstimation

\* POST /api/estimations as server/routes.ts registers it, for a body its
\* schema accepts: createdBy is req.user?.claims?.sub || 'anonymous'
PostEstimations_routes(c, body, sub) ==
  PostEstimations(c, body, IF sub = "" THEN "anonymous" ELSE sub)

\* the guarded data routes as one client requests them: the dashboard and
\* the first write of each resource
DataRequest(client) ==
  \/ Guarded(client, GetDashboardStats)
  \/ Guarded(client, FirstWrite /\ PostProject)
  \/ Guarded(client, \E id \in projects : FirstWrite /\ DeleteProject(id))
  \/ Guarded(client, \E p \in projects : FirstWrite /\ PostScreen(p))
  \/ Guarded(client, FirstWrite /\ PostComplexity(NewName, Num(5)))
  \/ Guarded(client, \E r \in complexityMaster :
                       FirstWrite /\ DeleteComplexity(r.id))
  \/ Guarded(client, FirstWrite /\ PostScreenType(NewName, Num(5)))
  \/ Guarded(client,
             FirstWrite
               /\ PostHourMapping(MappedComplexity, MappedBehavior, Num(5)))
  \/ Guarded(client,
             FirstWrite
               /\ PutHourMapping(HourMappingPath(MappedComplexity,
                                                 MappedBehavior), Num(7)))
  \/ Guarded(client,
             \E c \in SnapshotRequests, body \in { x \in Bodies : Saved(x) },
                userId \in {"", "u1"} :
               FirstWrite /\ FreeRequest(c) /\ PostEstimations(c, body, userId))
  \/ Guarded(client,
             \E c \in SnapshotRequests, body \in { x \in Bodies : Saved(x) },
                sub \in {"", "u1"} :
               FirstWrite /\ FreeRequest(c)
                 /\ PostEstimations_routes(c, body, sub))

\* clients logging in one after the other and out, and requesting the data
\* routes with and without a session
GuardNext ==
  \/ SendOtp(MailA, "111111")
  \/ \E client \in Clients : VerifyOtpCheck(1, client, MailA, "111111")
  \/ VerifyOtpLogin(1, TRUE)
  \/ \E client \in Clients : Logout(client, TRUE)
  \/ \E client \in Clients : DataRequest(client)
  \/ \E c \in SnapshotRequests : CreateEstimationDetails(c, FALSE)

\* ------------------------------------- SmartEstimationEngine (validation)
\* Names that the engine only compares are strings; allowedBehaviors, which
\* it splits and trims, and the behaviour names it looks up in the result
\* are sequences of characters.  A nullable column is {t, v}: t = "null"
\* for NULL, otherwise the text v.
Static == <<"S", "t", "a", "t", "i", "c">>
PartialDynamic == <<"P", "a", "r", "t", "i", "a", "l", " ", "D", "y", "n", "a", "m", "i", "c">>
Dynamic == <<"D", "y", "n", "a", "m", "i", "c">>
OtherBehavior == <<"N", "e", "w">>
DefaultAllowedBehaviors == 
  <<"S", "t", "a", "t", "i", "c", ",", "P", "a", "r", "t", "i", "a", "l", " ">>
    \o <<"D", "y", "n", "a", "m", "i", "c", ",", "D", "y", "n", "a", "m", "i", "c">>

NullText == [t |-> "null", v |-> ""]
Text(v) == [t |-> "string", v |-> v]
NullChars == [t |-> "null", v |-> <<>>]
CharsOf(v) == [t |-> "string", v |-> v]

\* a || b for a nullable text a: b when a is null or empty
OrText(a, b) == IF a.t = "null" \/ a.v = "" THEN b ELSE a.v
OrChars(a, b) == IF a.t = "null" \/ a.v = <<>> THEN b ELSE a.v

complexityOrder == <<"Simple", "Medium", "Complex">>

\* Array.prototype.indexOf: zero-based, -1 when absent
indexOf(array, x) ==
  IF \E i \in 1..Len(array) : array[i] = x
    THEN (CHOOSE i \in 1..Len(array) :
            array[i] = x /\ \A j \in 1..(i - 1) : array[j] # x) - 1
    ELSE -1

\* Array.prototype.includes
includes(array, x) == \E i \in 1..Len(array) : array[i] = x

\* String.prototype.split(',')
RECURSIVE split(_)
split(str) ==
  IF \E i \in 1..Len(str) : str[i] = ","
    THEN LET i == CHOOSE k \in 1..Len(str) :
                    str[k] = "," /\ \A j \in 1..(k - 1) : str[j] # ","
         IN  <<SubSeq(str, 1, i - 1)>> \o split(SubSeq(str, i + 1, Len(str)))
    ELSE <<str>>

\* String.prototype.trim
trim_none(str) == str

trim(str) ==
  LET inked == { i \in 1..Len(str) : str[i] # " " }
  IN  IF inked = {} THEN <<>>
      ELSE SubSeq(str, CHOOSE i \in inked : \A j \in inked : i <= j,
                       CHOOSE i \in inked : \A j \in inked : i >= j)

\* getAllowedComplexities(screenType, allComplexities)
getAllowedComplexities(screenType, allComplexities) ==
  LET minIndex == indexOf(complexityOrder,
                          OrText(screenType.minComplexity, "Simple"))
      maxIndex == indexOf(complexityOrder,
                          OrText(screenType.maxComplexity, "Complex"))
      Allowed(complexity) ==
        LET currentIndex == indexOf(complexityOrder, complexity.name)
        IN  currentIndex >= minIndex /\ currentIndex <= maxIndex
  IN  SelectSeq(allComplexities, Allowed)

\* getAllowedBehaviors(screenType, allBehaviors)
getAllowedBehaviors(screenType, allBehaviors) ==
  LET parts == split(OrChars(screenType.allowedBehaviors,
                             DefaultAllowedBehaviors))
      allowedNames == [i \in 1..Len(parts) |-> trim(parts[i])]
      Allowed(behavior) == includes(allowedNames, behavior.name)
  IN  SelectSeq(allBehaviors, Allowed)

\* validateCombination(context); a warning is {about, name, screenType}
validateCombination(context) ==
  LET allowedComplexities ==
        getAllowedComplexities(context.screenType, <<context.complexity>>)
      allowedBehaviors ==
        getAllowedBehaviors(context.screenType, <<context.behavior>>)
      warnings ==
        (IF Len(allowedComplexities) = 0
           THEN <<[about |-> "complexity",
                   name |-> context.complexity.name,
                   screenType |-> context.screenType.name]>>
           ELSE <<>>)
        \o
        (IF Len(allowedBehaviors) = 0
           THEN <<[about |-> "behavior",
                   name |-> context.behavior.name,
                   screenType |-> context.screenType.name]>>
           ELSE <<>>)
  IN  [isValid |-> Len(warnings) = 0, warnings |-> warnings]

\* the arguments the engine is called with
EngineComplexities ==
  { [name |-> n] : n \in {"Simple", "Medium", "Complex", "Very Complex"} }
EngineBehaviors ==
  { [name |-> n] : n \in {Static, PartialDynamic, Dynamic, OtherBehavior} }
ComplexityBounds ==
  { NullText, Text(""), Text("Simple"), Text("Medium"), Text("Complex") }
AllowedBehaviorsTexts ==
  { NullChars, CharsOf(<<>>), CharsOf(Dynamic),
    CharsOf(Static \o <<",">> \o Dynamic),
    CharsOf(Static \o <<",", " ">> \o PartialDynamic \o <<" ">>) }
GenericScreenTypes ==
  { [name |-> "Form", minComplexity |-> lo, maxComplexity |-> hi,
     allowedBehaviors |-> ab] :
      lo \in ComplexityBounds, hi \in ComplexityBounds,
      ab \in AllowedBehaviorsTexts }
EstimationContexts ==
  { [screenType |-> st, complexity |-> c, behavior |-> b] :
      st \in GenericScreenTypes, c \in EngineComplexities,
      b \in EngineBehaviors }

\* the lists of at most MaxListLen elements of a set
ListsOf(S) == UNION { [1..n -> S] : n \in 0..MaxListLen }

NoCall == [op |-> "none"]

EngineInit ==
  /\ engineIn = NoCall
  /\ engineOut = NoCall

ValidateCombination(context) ==
  /\ engineIn' = [op |-> "validateCombination", context |-> context]
  /\ engineOut' = [op |-> "validateCombination",
                   result |-> validateCombination(context)]
  /\ UNCHANGED <<authVars, dayVars, mappingVars, lookup, masterVars,
                 storeVars, formVars>>

GetAllowedComplexities(screenType, allComplexities) ==
  /\ engineIn' = [op |-> "getAllowedComplexities", screenType |-> screenType,
                  all |-> allComplexities]
  /\ engineOut' = [op |-> "getAllowedComplexities",
                   result |-> getAllowedComplexities(screenType,
                                                     allComplexities)]
  /\ UNCHANGED <<authVars, dayVars, mappingVars, lookup, masterVars,
                 storeVars, formVars>>

GetAllowedBehaviors(screenType, allBehaviors) ==
  /\ engineIn' = [op |-> "getAllowedBehaviors", screenType |-> screenType,
                  all |-> allBehaviors]
  /\ engineOut' = [op |-> "getAllowedBehaviors",
                   result |-> getAllowedBehaviors(screenType, allBehaviors)]
  /\ UNCHANGED <<authVars, dayVars, mappingVars, lookup, masterVars,
                 storeVars, formVars>>

\* one call of the engine, with every context and every short list
EngineNext ==
  \/ \E context \in EstimationContexts :
       engineIn = NoCall /\ ValidateCombination(context)
  \/ \E screenType \in GenericScreenTypes,
        allComplexities \in ListsOf(EngineComplexities) :
       engineIn = NoCall /\ GetAllowedComplexities(screenType, allComplexities)
  \/ \E screenType \in GenericScreenTypes,
        allBehaviors \in ListsOf(EngineBehaviors) :
       engineIn = NoCall /\ GetAllowedBehaviors(screenType, allBehaviors)

\* the simplified form with one line item and an administrator updating
\* the mapping of the pair the user is selecting
RaceNext ==
  \/ estimationItems = <<>> /\ addEstimationItem
  \/ \E k \in CalcCalls, i \in 1..MaxItems, f \in ItemFields :
       \E v \in FieldValues(f) : FreeCall(k) /\ updateEstimationItem(k, i, f, v)
  \/ \E k \in CalcCalls, ok \in BOOLEAN : GetHourMappingHours(k, ok)
  \/ \E k \in CalcCalls : updateEstimationItemResume(k)
  \/ \E h \in WriteHours :
       PutHourMapping(HourMappingPath(MappedComplexity, MappedBehavior), h)

\* the simplified form alone, with updateEstimationItem calls overlapping
\* each other and the add and remove buttons
UpdatesNext ==
  \/ addEstimationItem
  \/ \E i \in 1..MaxItemIds : removeEstimationItem(i)
  \/ \E k \in Calls, i \in 1..MaxItems, f \in ItemFields :
       \E v \in FieldValues(f) : FreeCall(k) /\ updateEstimationItem(k, i, f, v)
  \/ \E k \in Calls : GetHourMappingHours(k, TRUE)
  \/ \E k \in Calls : updateEstimationItemResume(k)

\* hours values sent to the write routes, with zero, another positive
\* number and a string
MappingHours == WriteHours \cup { Num(0), Num(7), ConcatString }

\* the hour-mapping write routes alone
MappingNext ==
  \/ \E c \in ComplexityNames \cup {EmptyName},
        b \in BehaviorNames \cup {EmptyName}, h \in MappingHours :
       PostHourMapping(c, b, h)
  \/ \E c \in ComplexityNames, b \in BehaviorNames, h \in MappingHours :
       PutHourMapping(HourMappingPath(c, b), h)

DayNext ==
  \E h \in 0..MaxTotalHours :
    \/ RenderSimplified(h)
    \/ RenderEstimations(h)
    \/ RenderStepper(h)

Init ==
  /\ DayInit
  /\ MappingInit
  /\ LookupInit
  /\ MasterInit
  /\ StoreInit
  /\ FormInit
  /\ AuthInit
  /\ EngineInit

SpecDays == Init /\ [][DayNext]_vars

SpecCalc == Init /\ [][CalcNext]_vars

SpecStore == Init /\ [][StoreNext]_vars
SpecSnapshot == Init /\ [][SnapshotNext]_vars
SpecForms == Init /\ [][FormNext]_vars
SpecPurity == Init /\ [][PurityNext]_vars
SpecMaster == Init /\ [][MasterNext]_vars
SpecRace == Init /\ [][RaceNext]_vars
SpecUpdates == Init /\ [][UpdatesNext]_vars
SpecMapping == Init /\ [][MappingNext]_vars
SpecAuth == Init /\ [][AuthNext]_vars
SpecGuard == Init /\ [][GuardNext]_vars
SpecEngine == Init /\ [][EngineNext]_vars

\* ------------------------------------------------------- day-count claims
IsDigit(c) == \E i \in 1..10 : Digits[i] = c
DigitValue(c) == (CHOOSE i \in 1..10 : Digits[i] = c) - 1

RECURSIVE ParseDecimal(_)
ParseDecimal(s) ==
  IF s = <<>> THEN 0
  ELSE 10 * ParseDecimal(SubSeq(s, 1, Len(s) - 1)) + DigitValue(s[Len(s)])

\* d is the day count of the final rule for h hours: one half below five
\* hours, else the least whole number of 8-hour days that holds h hours
FinalRule(h, d) ==
  IF h <= 4
    THEN d = HalfDay
    ELSE /\ ~d.nan
         /\ ~d.half
         /\ 8 * d.whole >= h
         /\ 8 * (d.whole - 1) < h

C7_ConsistentRounding ==
  dayForm # "none" => FinalRule(dayIn, dayOut)

\* C8: formatDays renders 0.5 as "0.5 Day"; composed with
\* calculateEstimatedDays every totalHours > 4 renders as the decimal
\* numeral of ceil(totalHours / 8), digits only, without a unit.
C8_FormatDays ==
  dayForm = "SimplifiedEstimations" =>
    /\ (dayIn <= 4 => dayText = <<"0", ".", "5", " ", "D", "a", "y">>)
    /\ (dayIn > 4 =>
          /\ dayText # <<>>
          /\ \A i \in 1..Len(dayText) : IsDigit(dayText[i])
          /\ (Len(dayText) > 1 => dayText[1] # "0")
          /\ 8 * ParseDecimal(dayText) >= dayIn
          /\ 8 * (ParseDecimal(dayText) - 1) < dayIn)

C8_Witness ==
  /\ dayForm = "SimplifiedEstimations"
  /\ dayIn = 17
  /\ dayText = <<"3">>

\* ------------------------------------------------------ calculator claims
Done(k) == lookup[k].pc = "done"
Asked(k) ==
  /\ lookup[k].complexity # EmptyName
  /\ lookup[k].behavior # EmptyName

C5_ZeroWhenAbsentOrFailed ==
  \A k \in Calls :
    Done(k) =>
      /\ IsNumber(lookup[k].result)
      /\ (~Asked(k) => lookup[k].result = Num(0))
      /\ (Asked(k) /\ lookup[k].resp.status # 200 => lookup[k].result = Num(0))
      /\ (Asked(k) /\ ~IsNumber(lookup[k].rowAtRead)
            => lookup[k].result = Num(0))

C5_Witness ==
  \E k \in Calls :
    /\ Done(k)
    /\ Asked(k)
    /\ lookup[k].resp.status = 200
    /\ ~IsNumber(lookup[k].rowAtRead)
    /\ lookup[k].result = Num(0)

\* ---------------------------------------------------- record-store claims
DetailsOf(id) == { d \in estimationDetails : d.estimationId = id }

\* the persisted detail rows of header id are, in insertion order, exactly
\* the rows its createEstimation call was given
PersistedAsSubmitted(id) ==
  LET ds == DetailsOf(id)
      given == submitted[id]
  IN /\ Cardinality(ds) = Len(given)
     /\ \A i \in 1..Len(given) :
          \E d \in ds :
            /\ Cardinality({ x \in ds : x.id < d.id }) = i - 1
            /\ d.screenId = given[i].screenId
            /\ d.complexityId = given[i].complexityId
            /\ d.screenTypeId = given[i].screenTypeId
            /\ Num(d.calculatedHours) = given[i].calculatedHours

\* C1: createEstimation is atomic: a persisted header exists only together
\* with all detail rows submitted with it, no detail row exists without its
\* header, and a call whose detail insert failed after the header insert
\* leaves neither its header nor any of its detail rows.
C1_Atomic ==
  /\ \A e \in estimations :
       e.id \in DOMAIN submitted /\ PersistedAsSubmitted(e.id)
  /\ \A d \in estimationDetails : d.estimationId \in Ids(estimations)
  /\ \A id \in failedIds :
       id \notin Ids(estimations) /\ DetailsOf(id) = {}

\* a call failed in the middle of its batch and another one committed two rows
C1_Witness ==
  /\ \E id \in failedIds :
       /\ Len(submitted[id]) = 2
       /\ DetailInsertable(submitted[id][1])
       /\ ~DetailInsertable(submitted[id][2])
  /\ \E e \in estimations : Cardinality(DetailsOf(e.id)) = 2

RECURSIVE SumCalculatedHours(_)
SumCalculatedHours(rows) ==
  IF rows = {} THEN 0
  ELSE LET d == CHOOSE x \in rows : TRUE
       IN d.calculatedHours + SumCalculatedHours(rows \ {d})

\* C2: every estimation persisted through POST /api/estimations has
\* totalHours equal to the sum of calculatedHours over its persisted detail
\* rows (0 when it has none).
C2_TotalIsSum ==
  \A e \in estimations : e.totalHours = SumCalculatedHours(DetailsOf(e.id))

\* C3: a create or update of an hour mapping leaves what is read back for
\* every persisted estimation unchanged: the header with its totalHours and
\* every detail row with its calculatedHours.
C3_Snapshot ==
  [][ hourMapping' # hourMapping =>
        \A e \in estimations :
          /\ getEstimation(e.id)' = getEstimation(e.id)
          /\ getEstimation(e.id) # {}
          /\ getEstimationDetails(e.id)' = getEstimationDetails(e.id) ]_vars

\* the last request was a successful PUT of a mapping, and the pair of a
\* persisted detail now maps to other hours than the detail keeps
C3_Witness ==
  /\ httpStatus = 200
  /\ \E d \in estimationDetails :
       LET h == getHoursByComplexityAndBehavior(
                  NameOf(complexityMaster, d.complexityId),
                  NameOf(screenTypeMaster, d.screenTypeId))
       IN /\ h # Undefined
          /\ h # Num(d.calculatedHours)

\* the hours of the line items of the mounted form
LineItemHours ==
  IF page = "SimplifiedEstimations"
    THEN [i \in 1..Len(estimationItems) |-> estimationItems[i].hours]
  ELSE IF page = "Estimations"
    THEN [i \in 1..Len(estimationScreens) |-> estimationScreens[i].hours]
  ELSE [i \in 1..Len(formScreens) |-> formScreens[i].calculatedHours]

\* the total the mounted form shows and submits
ShownTotalHours ==
  IF page = "SimplifiedEstimations" THEN SimplifiedTotalHours
  ELSE IF page = "Estimations" THEN EstimationsTotalHours
  ELSE calculateTotalHours

RECURSIVE ArithmeticSum(_)
ArithmeticSum(hours) ==
  IF hours = <<>> THEN 0 ELSE Head(hours).v + ArithmeticSum(Tail(hours))

\* C10: every hours value a form's line item holds, and every
\* calculatedHours value a form submits, is an integer >= 0 (not a promise
\* or another non-number)
C10_HoursAreNaturals ==
  /\ \A i \in 1..Len(LineItemHours) :
       IsNumber(LineItemHours[i]) /\ LineItemHours[i].v >= 0
  /\ \A i \in 1..Len(posted.details) :
       /\ IsNumber(posted.details[i].calculatedHours)
       /\ posted.details[i].calculatedHours.v >= 0

\* C9: after any sequence of add, update and remove operations the
\* aggregated totalHours of the form is the arithmetic sum of its items'
\* hours, and 0 for the empty list
C9_TotalIsArithmeticSum ==
  /\ IsNumber(ShownTotalHours)
  /\ \A i \in 1..Len(LineItemHours) : IsNumber(LineItemHours[i])
  /\ ShownTotalHours.v = ArithmeticSum(LineItemHours)

\* ----------------------------------------------------------- purity claim
\* two finished calls with identical inputs returned identical hours
C11_Idempotent ==
  \A j, k \in Calls :
    ( /\ Done(j) /\ Done(k)
      /\ lookup[j].complexity = lookup[k].complexity
      /\ lookup[j].behavior = lookup[k].behavior )
    => lookup[j].result = lookup[k].result

\* no call is suspended waiting for a response
C11_Synchronous == \A k \in Calls : lookup[k].pc \in {"idle", "done"}

\* C11: the calculator is pure and synchronous: two calls with identical
\* (complexity, screenType) inputs yield identical output, also with
\* hour-mapping edits interleaved between them, and a call never suspends
C11_PureAndSynchronous == C11_Idempotent /\ C11_Synchronous

\* ------------------------------------------------------ master-data claims
\* C12: a persisted estimation is terminal and immutable: no operation
\* changes or removes its header row, removes or changes one of its detail
\* rows, or adds a detail row to it
C12_Immutable ==
  [][ /\ \A e \in estimations : e \in estimations'
      /\ \A d \in estimationDetails : d \in estimationDetails'
      /\ \A d \in estimationDetails' :
           d \in estimationDetails \/ d.estimationId \notin Ids(estimations) ]_vars

\* an estimation with a detail row is persisted, the complexity level the
\* row refers to has been given other hours, and a request has just been
\* refused
C12_Witness ==
  /\ httpStatus = 500
  /\ adminWrites = MaxAdminWrites
  /\ \E d \in estimationDetails, r \in complexityMaster :
       /\ d.estimationId \in Ids(estimations)
       /\ r.id = d.complexityId
       /\ r.hours = 5

\* ------------------------------------------------- creation error claims
\* C13: creating an estimation whose header lacks projectId, name or
\* versionNumber, has one of them empty, or has negative totalHours fails
\* and persists nothing: no persisted header has an empty name, an empty
\* version number or negative totalHours
C13_HeaderValidated ==
  \A e \in estimations :
    /\ e.name # ""
    /\ e.versionNumber # ""
    /\ e.totalHours >= 0

\* a submitted detail row that names a screen, complexity or screen type
\* that does not exist
Dangling(detail) ==
  \/ detail.screenId \notin Ids(screens)
  \/ detail.complexityId \notin Ids(complexityMaster)
  \/ detail.screenTypeId \notin Ids(screenTypeMaster)

\* C14: every persisted header references an existing project and every
\* persisted detail row an existing screen, complexity and screen type, and
\* a call one of whose detail rows references a missing row leaves neither
\* its header nor any detail row
C14_ReferencesExist ==
  /\ \A e \in estimations : e.projectId \in projects
  /\ \A d \in estimationDetails :
       /\ d.screenId \in Ids(screens)
       /\ d.complexityId \in Ids(complexityMaster)
       /\ d.screenTypeId \in Ids(screenTypeMaster)
  /\ \A id \in DOMAIN submitted :
       (\E i \in 1..Len(submitted[id]) : Dangling(submitted[id][i]))
         => id \notin Ids(estimations) /\ DetailsOf(id) = {}

\* a call whose only detail row names a missing complexity was rolled back
\* after its header insert, and another call committed
C14_Witness ==
  /\ httpStatus = 500
  /\ \E id \in failedIds :
       /\ Len(submitted[id]) = 1
       /\ submitted[id][1].screenId \in Ids(screens)
       /\ submitted[id][1].complexityId \notin Ids(complexityMaster)
  /\ \E e \in estimations : DetailsOf(e.id) # {}

\* ------------------------------------------------- hour mapping table
\* C15: after any sequence of POST /api/hour-mapping and
\* PUT /api/hour-mapping/:complexity/:behavior the table holds at most one
\* row per (complexityName, screenBehaviorName) pair
C15_OneRowPerPair ==
  \A r1 \in hourMapping, r2 \in hourMapping :
    Pair(r1.complexityName, r1.screenBehaviorName)
      = Pair(r2.complexityName, r2.screenBehaviorName) => r1 = r2

\* two writes succeeded, the last one a POST: one wrote a seeded pair, whose
\* hours are now the written ones, and one added a pair
C15_Witness ==
  /\ httpStatus = 201
  /\ mappingWrites = 2
  /\ getHoursByComplexityAndBehavior(<<"M", "e", "d">>, <<"P", " ", "D">>)
       = Num(5)
  /\ Cardinality(hourMapping) = 3

\* ------------------------------------------------- one rule per estimation
\* the hours of a master row, 0 when the id names none
HoursOfId(rows, id) ==
  IF id \in Ids(rows) THEN (CHOOSE r \in rows : r.id = id).hours ELSE 0

\* the rules a submitted line item's hours may follow
ByLookup(d) ==
  d.calculatedHours =
    OrZero(getHoursByComplexityAndBehavior(
             NameOf(complexityMaster, d.complexityId),
             NameOf(screenTypeMaster, d.screenTypeId)))

ByAddition(d) ==
  d.calculatedHours =
    Num(HoursOfId(complexityMaster, d.complexityId)
        + HoursOfId(screenTypeMaster, d.screenTypeId))

ByMultiplier(d) == d.calculatedHours = Num(MultiplierHours)

SubmittedItems == { posted.details[i] : i \in 1..Len(posted.details) }

\* an estimation was submitted from the Estimations page or from the stepper
SubmittedFromScreens ==
  posted # NoBody /\ page \in {"Estimations", "EstimationStepper"}

\* every line item of a submitted estimation has the hours of the mapping
\* lookup for its complexity and screen type
C16_AllByLookup ==
  SubmittedFromScreens => \A d \in SubmittedItems : ByLookup(d)

\* some one rule explains all line items of a submitted estimation
C16_NoMixedRules ==
  SubmittedFromScreens =>
    \/ \A d \in SubmittedItems : ByLookup(d)
    \/ \A d \in SubmittedItems : ByAddition(d)
    \/ \A d \in SubmittedItems : ByMultiplier(d)

\* C16: within one estimation the hours of all line items come from the one
\* rule in force, the direct mapping lookup; additive, multiplicative and
\* lookup hours are never mixed
C16_SingleRule == C16_AllByLookup /\ C16_NoMixedRules

\* ------------------------------------------------- master data
\* no two rows of a master table share a name
UniqueNames(rows) ==
  \A r1 \in rows, r2 \in rows : r1.name = r2.name => r1 = r2

\* C17: every stored complexity level and screen type has a unique name and
\* positive integer hours: a create or update with hours <= 0 or with
\* non-numeric hours is rejected and leaves the list unchanged
C17_PositiveHours ==
  /\ UniqueNames(complexityMaster)
  /\ UniqueNames(screenTypeMaster)
  /\ \A r \in complexityMaster \cup screenTypeMaster : r.hours > 0

\* C18: a complexity level or screen type referenced by an estimation detail
\* is never deleted: every persisted detail references an existing
\* complexity and screen type, and the rows the details reference are still
\* there after every step
C18_ReferencedKept ==
  /\ [](\A d \in estimationDetails :
          /\ d.complexityId \in Ids(complexityMaster)
          /\ d.screenTypeId \in Ids(screenTypeMaster))
  /\ [][ \A d \in estimationDetails :
           /\ d.complexityId \in Ids(complexityMaster')
           /\ d.screenTypeId \in Ids(screenTypeMaster') ]_vars

\* with a detail persisted, the complexity level no detail references was
\* deleted, and the next delete or write was refused
C18_Witness ==
  /\ estimationDetails # {}
  /\ 2 \notin Ids(complexityMaster)
  /\ Ids(screenTypeMaster) = {1, 2}
  /\ httpStatus = 500
  /\ adminWrites = 2

\* ------------------------------------------------- concurrent creation
\* C19: concurrent calls of createEstimation do not disturb each other:
\* headers in flight and persisted headers have pairwise distinct ids, detail
\* rows have distinct ids, and every persisted header has exactly as many
\* detail rows as were submitted with it, each carrying that header's id
\* and the submitted values
C19_OwnHeaderOwnDetails ==
  /\ \A c1 \in Requests, c2 \in Requests :
       (c1 # c2 /\ tx[c1].pc = "header" /\ tx[c2].pc = "header")
         => tx[c1].header.id # tx[c2].header.id
  /\ \A c \in Requests :
       tx[c].pc = "header" => tx[c].header.id \notin Ids(estimations)
  /\ \A e1 \in estimations, e2 \in estimations : e1.id = e2.id => e1 = e2
  /\ \A d1 \in estimationDetails, d2 \in estimationDetails :
       d1.id = d2.id => d1 = d2
  /\ \A e \in estimations :
       /\ Cardinality(DetailsOf(e.id)) = Len(submitted[e.id])
       /\ PersistedAsSubmitted(e.id)

\* two calls overlapped and both succeeded: the call that inserted its
\* header second committed its detail rows first
C19_Witness ==
  /\ Ids(estimations) = {1, 2}
  /\ \E d1 \in DetailsOf(1), d2 \in DetailsOf(2) : d2.id < d1.id

\* ------------------------------------------------- update racing a lookup
\* the step in which updateEstimationItem call k sets the list
Resumes(k) ==
  /\ updateCalls[k].active
  /\ ~updateCalls'[k].active
  /\ estimationItems' # <<>>

\* the item of call k has, after that step, the hours the pair had when the
\* call was made or the hours it has now
ReceivesBeforeOrAfter(k) ==
  \E i \in 1..Len(estimationItems') :
    /\ estimationItems'[i].id = updateCalls[k].id
    /\ estimationItems'[i].hours \in
         { OrZero(lookup[k].rowAtCall),
           OrZero(getHoursByComplexityAndBehavior(lookup[k].complexity,
                                                  lookup[k].behavior)) }

\* the hours of the pair of call k were rewritten since the call was made
Raced(k) ==
  getHoursByComplexityAndBehavior(lookup[k].complexity, lookup[k].behavior)
    # lookup[k].rowAtCall

\* a successful update leaves the written hours in the table, and nothing
\* but a write changes the table
LastWriteStays ==
  /\ (mappingWrites' # mappingWrites /\ httpStatus' = 200)
       => /\ getHoursByComplexityAndBehavior(MappedComplexity,
                                              MappedBehavior)' = Num(5)
          /\ Cardinality(hourMapping') = Cardinality(hourMapping)
  /\ (mappingWrites' = mappingWrites \/ httpStatus' # 200)
       => hourMapping' = hourMapping

ItemIds(items) == { items[i].id : i \in 1..Len(items) }

\* the step of call k leaves what it does not update as the list has it
\* now: other items as they are, and on its own item the other selection
KeepsOtherSelections(k) ==
  \A i \in 1..Len(estimationItems), j \in 1..Len(estimationItems') :
    estimationItems[i].id = estimationItems'[j].id =>
      IF estimationItems[i].id # updateCalls[k].id
        THEN estimationItems'[j] = estimationItems[i]
      ELSE IF updateCalls[k].field = "complexity"
        THEN estimationItems'[j].screenTypeName
               = estimationItems[i].screenTypeName
      ELSE estimationItems'[j].complexity = estimationItems[i].complexity

\* C21: once every updateEstimationItem call in flight has completed, every
\* line item holds the complexity and screen behaviour last selected for it:
\* the call that completes last loses no selection made by another update
\* started before it completed
C21_NoLostUpdate ==
  [][ \A k \in Calls :
        (Resumes(k) /\ \A j \in Calls : ~updateCalls'[j].active)
          => KeepsOtherSelections(k) ]_vars

\* C22: a line item added stays in the list and a line item removed stays
\* removed when an updateEstimationItem call started before the add or
\* remove completes after it: the completing call leaves the set of line
\* items as it is
C22_AddRemoveKept ==
  [][ \A k \in Calls :
        Resumes(k) => ItemIds(estimationItems') = ItemIds(estimationItems) ]_vars

\* ------------------------------------------------- submitted detail rows
\* the step in which a form hands its body to the mutation
Submits == posted = NoBody /\ posted' # NoBody

\* detail row d carries the ids of the master rows named complexity and
\* screenType, both selected, and the hours shown
AsSelected(d, complexity, screenType, hours) ==
  /\ complexity # EmptyName
  /\ screenType # EmptyName
  /\ \E r \in complexityMaster : r.name = complexity /\ r.id = d.complexityId
  /\ \E r \in screenTypeMaster : r.name = screenType /\ r.id = d.screenTypeId
  /\ d.calculatedHours = hours

\* C23: every detail row a form submits carries the complexityId and
\* screenTypeId of the master rows whose names were selected for the line
\* item and the hours shown for it; a line item without a complexity or
\* without a screen type is never submitted
C23_SubmittedAsSelected ==
  [][ Submits =>
        /\ page = "SimplifiedEstimations" =>
             /\ Len(posted'.details) = Len(estimationItems)
             /\ \A i \in 1..Len(estimationItems) :
                  AsSelected(posted'.details[i], estimationItems[i].complexity,
                             estimationItems[i].screenTypeName,
                             estimationItems[i].hours)
        /\ page = "Estimations" =>
             /\ Len(posted'.details) = Len(estimationScreens)
             /\ \A i \in 1..Len(estimationScreens) :
                  AsSelected(posted'.details[i], estimationScreens[i].complexity,
                             estimationScreens[i].screenType,
                             estimationScreens[i].hours) ]_vars

\* ------------------------------------------------- screens of the project
\* the line items of the mounted form
LineItems ==
  IF page = "SimplifiedEstimations" THEN estimationItems
  ELSE IF page = "Estimations" THEN estimationScreens
  ELSE formScreens

\* C24: every detail row of a submitted estimation names a screen of the
\* estimation's own project, and selecting another project clears the line
\* items of the form
C24_ScreensOfOwnProject ==
  [][ /\ Submits =>
           \A i \in 1..Len(posted'.details) :
             \E sc \in ProjectScreens(posted'.estimation.projectId) :
               sc.id = posted'.details[i].screenId
      /\ (page' = page /\ selectedProjectId' # selectedProjectId)
           => LineItems' = <<>> ]_vars

\* ------------------------------------------------- hour mapping validation
\* hours the write routes refuse
RefusedHours(h) == ~IsNumber(h) \/ h.v < 0

\* C25: the hour-mapping write routes validate before writing: a POST with
\* an empty complexityName, an empty screenBehavior, hours that are not a
\* number or hours < 0, and a PUT with hours that are not a number or
\* hours < 0, answer 400 and leave the table unchanged; hours = 0 is
\* accepted and stored
C25_ValidatedBeforeWrite ==
  [][ /\ \A c \in ComplexityNames \cup {EmptyName},
            b \in BehaviorNames \cup {EmptyName}, h \in MappingHours :
           PostHourMapping(c, b, h) =>
             IF c = EmptyName \/ b = EmptyName \/ RefusedHours(h)
               THEN httpStatus' = 400 /\ hourMapping' = hourMapping
               ELSE /\ httpStatus' = 201
                    /\ getHoursByComplexityAndBehavior(c, b)' = h
      /\ \A c \in ComplexityNames, b \in BehaviorNames, h \in MappingHours :
           PutHourMapping(HourMappingPath(c, b), h) =>
             IF RefusedHours(h)
               THEN httpStatus' = 400 /\ hourMapping' = hourMapping
               ELSE /\ httpStatus' = 200
                    /\ getHoursByComplexityAndBehavior(c, b)' = h ]_vars

\* a write with hours 0 was stored, and the write after it was refused
C25_Witness ==
  /\ mappingWrites = 2
  /\ httpStatus = 400
  /\ \E r \in hourMapping : r.hours = 0

\* ------------------------------------------------- dashboard
\* C26: the dashboard's totalHours is the sum of totalHours over all
\* persisted estimations, each counted once, and totalProjects,
\* totalScreens and totalEstimations are the numbers of projects, screens
\* and estimations
C26_DashboardTotals ==
  /\ getDashboardStats.totalProjects = Cardinality(projects)
  /\ getDashboardStats.totalScreens = Cardinality(screens)
  /\ getDashboardStats.totalEstimations = Cardinality(estimations)
  /\ getDashboardStats.totalHours =
       SumTotalHours({ [id |-> e.id, totalHours |-> e.totalHours] :
                       e \in estimations })

\* ------------------------------------------------- email login
\* C27: a session is established only by verify-otp with the OTP most
\* recently issued for the email and not expired, and each issued OTP
\* yields at most one successful login
C27_OneLoginPerOtp ==
  /\ \A i \in 1..Len(logins), j \in 1..Len(logins) :
       logins[i].issue = logins[j].issue => i = j
  /\ \A i \in 1..Len(logins) :
       /\ logins[i].latest
       /\ logins[i].checkedAt <= logins[i].expires
  /\ \A c \in Clients :
       sessions[c] # NoUser =>
         \E i \in 1..Len(logins) :
           logins[i].client = c /\ logins[i].email = sessions[c]

\* ---- C28
\* what the data routes store, open transactions included
StoredData == <<hourMapping, projects, screens, complexityMaster,
                screenTypeMaster, estimations, estimationDetails, tx>>

\* the user ids a request can carry
RequestUserIds == {"u1"}

Ranked(name) == name \in {"Simple", "Medium", "Complex"}
RankOf(name) ==
  IF name = "Simple" THEN 1 ELSE IF name = "Medium" THEN 2 ELSE 3

\* a bound of the screen type, or the default where none is given
BoundOf(column, default) ==
  IF column.t = "null" \/ column.v = "" THEN default ELSE column.v

ComplexityInRange(context) ==
  /\ Ranked(context.complexity.name)
  /\ RankOf(BoundOf(context.screenType.minComplexity, "Simple"))
       <= RankOf(context.complexity.name)
  /\ RankOf(context.complexity.name)
       <= RankOf(BoundOf(context.screenType.maxComplexity, "Complex"))

RECURSIVE StripLeft(_)
StripLeft(str) ==
  IF str # <<>> /\ Head(str) = " " THEN StripLeft(Tail(str)) ELSE str

RECURSIVE StripRight(_)
StripRight(str) ==
  IF str # <<>> /\ str[Len(str)] = " "
    THEN StripRight(SubSeq(str, 1, Len(str) - 1))
    ELSE str

\* the names of a comma-separated list: the texts between its commas,
\* without the blanks around them
ListedNames(str) ==
  { StripRight(StripLeft(SubSeq(str, i, j))) :
      <<i, j>> \in
        { p \in (1..(Len(str) + 1)) \X (0..Len(str)) :
            /\ p[2] >= p[1] - 1
            /\ p[1] = 1 \/ str[p[1] - 1] = ","
            /\ p[2] = Len(str) \/ str[p[2] + 1] = ","
            /\ \A k \in p[1]..p[2] : str[k] # "," } }

AllowedList(screenType) ==
  IF screenType.allowedBehaviors.t = "null"
       \/ screenType.allowedBehaviors.v = <<>>
    THEN Static \o <<",">> \o PartialDynamic \o <<",">> \o Dynamic
    ELSE screenType.allowedBehaviors.v

BehaviorListed(context) ==
  context.behavior.name \in ListedNames(AllowedList(context.screenType))

\* sub is list with some elements left out, the others in their order
RECURSIVE IsSubList(_, _)
IsSubList(sub, list) ==
  IF sub = <<>> THEN TRUE
  ELSE IF list = <<>> THEN FALSE
  ELSE IF Head(sub) = Head(list) THEN IsSubList(Tail(sub), Tail(list))
  ELSE IsSubList(sub, Tail(list))

\* C29: validateCombination reports isValid exactly when it gives no
\* warnings, and exactly when the complexity's rank lies between the screen
\* type's bounds (defaults Simple and Complex) and the behaviour's name is
\* one of the names of the allowedBehaviors list (default Static, Partial
\* Dynamic, Dynamic); getAllowedComplexities and getAllowedBehaviors return
\* sub-lists of their input in input order
C29_ValidExactly ==
  /\ engineOut.op = "validateCombination" =>
       /\ engineOut.result.isValid = (Len(engineOut.result.warnings) = 0)
       /\ engineOut.result.isValid =
            (ComplexityInRange(engineIn.context)
               /\ BehaviorListed(engineIn.context))
  /\ engineOut.op \in {"getAllowedComplexities", "getAllowedBehaviors"} =>
       IsSubList(engineOut.result, engineIn.all)

\* a combination found valid: Medium within Medium..Complex, and Partial
\* Dynamic listed after a blank in "Static, Partial Dynamic "
C29_Witness ==
  /\ engineOut.op = "validateCombination"
  /\ engineOut.result.isValid
  /\ engineIn.context.complexity.name = "Medium"
  /\ engineIn.context.screenType.minComplexity = Text("Medium")
  /\ engineIn.context.screenType.maxComplexity = NullText
  /\ engineIn.context.behavior.name = PartialDynamic
  /\ engineIn.context.screenType.allowedBehaviors =
       CharsOf(Static \o <<",", " ">> \o PartialDynamic \o <<" ">>)

====
